---- MODULE Spec2Model ----
(***************************************************************************)
(* Model of the zkCertificate tooling of galactica-snap:                   *)
(*   - class MerkleTree and getMerkleRootFromProof                         *)
(*   - reconstructShamirSecret of lib/shamirTools, as the tests use it     *)
(*   - the on-chain proof verification against MockZkCertificateRegistry   *)
(*   - contract AirdropGateway                                             *)
(*   - processRpcRequest of the snap                                       *)
(*                                                                         *)
(* Hash values are modelled symbolically: a leaf value is a 1-tuple <<n>>, *)
(* a Poseidon node hash of (left, right) is the pair <<left, right>>, and  *)
(* JavaScript's undefined is the empty tuple.  The pairing is injective,   *)
(* which is the collision-freeness the protocol assumes of Poseidon.       *)
(***************************************************************************)
EXTENDS Integers, Sequences, FiniteSets, TLC

VARIABLES
    constructed,    \* TRUE iff `new MerkleTree(depth, poseidon)` returned an object
    merkleTree,     \* the object: [depth, emptyBranchLevels, tree]
    inserted,       \* history: all leaves passed to successful insertLeaves calls, in order
    op,             \* history: the last call [name, leaves, leaf, error]
    prev,           \* history: merkleTree as it was before the last call
    proof,          \* the MerkleProof returned by the last successful createProof
    computedRoot,   \* the value returned by the last getMerkleRootFromProof
    shamir,         \* state of the Shamir reconstruction test bench
    chain,          \* the chain: registry contract, block time, last verifier call
    gateway,        \* contract AirdropGateway, its tokens, block time, last call
    snap            \* the snap: persisted state, requests in flight, last result

treeVars == <<constructed, merkleTree, inserted, op, prev, proof, computedRoot>>
contractVars == <<chain, gateway, snap>>
vars == <<constructed, merkleTree, inserted, op, prev, proof, computedRoot, shamir,
          chain, gateway, snap>>

-----------------------------------------------------------------------------
(* Bounds of the model *)

MaxDepth == 2      \* largest depth a tree is constructed with
MaxLeaves == 4     \* most leaves inserted into one tree over its life
MaxBatch == 2      \* most leaves passed to one insertLeaves call
NumShares == 5     \* shares dealt per secret (share indices 1..NumShares)
MaxRootsSet == 2   \* most setMerkleRoot calls made on one registry
MaxRegistrations == 2   \* most successful register calls per distribution
MaxTimestamp == 8       \* last block timestamp the gateway is called at
InitialBalance == 2     \* tokens a client holds before its first deposit
MaxProofs == 2          \* most merkle proofs in one updateMerkleProof request
MaxDeposited == 2       \* most tokens deposited into one of several distributions

\* depths given to the constructor, negative ones included
Depths == (0 - 3)..MaxDepth

-----------------------------------------------------------------------------
(* Values *)

\* JavaScript's undefined (a read past the end of an array, an unset property)
Undefined == <<>>

\* this.emptyLeaf = keccak256('Galactica') % SNARK_SCALAR_FIELD
emptyLeaf == <<0>>

\* Poseidon hash of the ordered pair (left, right)
calculateNodeHash(left, right) == <<left, right>>

\* leaf hashes callers insert or ask proofs for: the empty leaf's own value
\* and two ordinary values
LeafValues == {emptyLeaf, <<1>>, <<2>>}

\* arr[i] of a JavaScript array (0-based; undefined outside of it)
At(arr, i) == IF i >= 0 /\ i < Len(arr) THEN arr[i + 1] ELSE Undefined

\* a ?? b
Nullish(a, b) == IF a = Undefined THEN b ELSE a

\* IndexOf as lastIndexOf would compute it: the position of the last match
IndexOf_Last(arr, x) ==
    IF \E i \in 1..Len(arr) : arr[i] = x
    THEN (CHOOSE i \in 1..Len(arr) :
              arr[i] = x /\ \A j \in (i + 1)..Len(arr) : arr[j] # x) - 1
    ELSE 0 - 1

\* arr.indexOf(x): position of the first element equal to x, -1 if there is none
IndexOf(arr, x) ==
    IF \E i \in 1..Len(arr) : arr[i] = x
    THEN (CHOOSE i \in 1..Len(arr) :
              arr[i] = x /\ \A j \in 1..(i - 1) : arr[j] # x) - 1
    ELSE 0 - 1

RECURSIVE Pow2(_)
Pow2(n) == IF n <= 0 THEN 1 ELSE 2 * Pow2(n - 1)

\* all sequences over S of length 0..n
SeqsUpTo(S, n) == UNION {[1..k -> S] : k \in 0..n}

-----------------------------------------------------------------------------
(* class MerkleTree *)

\* levels[0] is the empty leaf, levels[i] = H(levels[i-1], levels[i-1]);
\* the loop does not run for depth <= 0
RECURSIVE calculateEmptyBranchHashes(_)
calculateEmptyBranchHashes(depth) ==
    IF depth <= 0
    THEN <<emptyLeaf>>
    ELSE LET levels == calculateEmptyBranchHashes(depth - 1)
         IN  Append(levels, calculateNodeHash(levels[depth], levels[depth]))

\* no object: the constructor threw
NoTree == [depth |-> 0, emptyBranchLevels |-> <<>>, tree |-> <<>>]

\* MerkleTreeNew with a check that throws for every depth < 0
MerkleTreeNew_RejectNegative(depth) ==
    IF depth < 0
    THEN [ok |-> FALSE, self |-> [NoTree EXCEPT !.depth = depth]]
    ELSE LET levels == calculateEmptyBranchHashes(depth)
         IN  [ok |-> TRUE,
              self |-> [depth |-> depth,
                        emptyBranchLevels |-> levels,
                        tree |-> [l \in 0..depth |->
                                     IF l = depth THEN <<At(levels, depth)>>
                                                  ELSE <<>>]]]

\* MerkleTreeNew with the root level left empty instead of set to the empty root
MerkleTreeNew_NoRoot(depth) ==
    IF depth + 1 < 0
    THEN [ok |-> FALSE, self |-> [NoTree EXCEPT !.depth = depth]]
    ELSE [ok |-> TRUE,
          self |-> [depth |-> depth,
                    emptyBranchLevels |-> calculateEmptyBranchHashes(depth),
                    tree |-> [l \in (0..(depth - 1)) \cup {depth} |-> <<>>]]]

\* constructor(depth, poseidon).  Array(depth + 1) throws a RangeError for a
\* negative length; levels 0..depth-1 start empty and tree[depth] is set to
\* [emptyBranchLevels[depth]] (for depth 0 this is level 0 itself, for depth -1
\* it is the property -1 holding [undefined]).
MerkleTreeNew(depth) ==
    IF depth + 1 < 0
    THEN [ok |-> FALSE, self |-> [NoTree EXCEPT !.depth = depth]]
    ELSE LET levels == calculateEmptyBranchHashes(depth)
         IN  [ok |-> TRUE,
              self |-> [depth |-> depth,
                        emptyBranchLevels |-> levels,
                        tree |-> [l \in (0..(depth - 1)) \cup {depth} |->
                                     IF l = depth THEN <<At(levels, depth)>>
                                                  ELSE <<>>]]]

\* LevelAbove without the `?? emptyBranchLevels[level]` for a missing sibling
LevelAbove_NoEmptyBranch(nodes, emptyBranch) ==
    [k \in 1..((Len(nodes) + 1) \div 2) |->
        calculateNodeHash(At(nodes, 2 * (k - 1)), At(nodes, 2 * (k - 1) + 1))]

\* LevelAbove with the inner loop stepping by one: a parent per node
LevelAbove_StepOne(nodes, emptyBranch) ==
    [k \in 1..Len(nodes) |->
        calculateNodeHash(At(nodes, k - 1), Nullish(At(nodes, k), emptyBranch))]

\* the recalculated level above `nodes`: one parent per pair (pos, pos + 1),
\* a missing right sibling replaced by the level's empty branch hash
LevelAbove(nodes, emptyBranch) ==
    [k \in 1..((Len(nodes) + 1) \div 2) |->
        calculateNodeHash(At(nodes, 2 * (k - 1)),
                          Nullish(At(nodes, 2 * (k - 1) + 1), emptyBranch))]

\* for (level = 0; level < depth; level += 1) tree[level + 1] = ...
RECURSIVE Rebuild(_, _, _)
Rebuild(self, tree, level) ==
    IF level >= self.depth
    THEN tree
    ELSE Rebuild(self,
                 [tree EXCEPT ![level + 1] =
                     LevelAbove(tree[level], At(self.emptyBranchLevels, level))],
                 level + 1)

\* insertLeaves building the tree from the given leaves alone
insertLeaves_Replace(self, leaves) ==
    IF Len(leaves) = 0
    THEN [error |-> "none", self |-> self]
    ELSE IF 0 \notin DOMAIN self.tree
    THEN [error |-> "TypeError", self |-> self]
    ELSE [error |-> "none",
          self |-> [self EXCEPT !.tree =
                       Rebuild(self, [self.tree EXCEPT ![0] = leaves], 0)]]

\* insertLeaves computing the levels above from the new leaves alone
insertLeaves_RebuildNewOnly(self, leaves) ==
    IF Len(leaves) = 0
    THEN [error |-> "none", self |-> self]
    ELSE IF 0 \notin DOMAIN self.tree
    THEN [error |-> "TypeError", self |-> self]
    ELSE [error |-> "none",
          self |-> [self EXCEPT !.tree =
                       [Rebuild(self, [self.tree EXCEPT ![0] = leaves], 0)
                           EXCEPT ![0] = self.tree[0] \o leaves]]]

\* insertLeaves without the early return for an empty array
insertLeaves_NoEarlyReturn(self, leaves) ==
    IF 0 \notin DOMAIN self.tree
    THEN [error |-> "TypeError", self |-> self]
    ELSE [error |-> "none",
          self |-> [self EXCEPT !.tree =
                       Rebuild(self, [self.tree EXCEPT ![0] = @ \o leaves], 0)]]

\* insertLeaves(leaves): returns at once for an empty array; otherwise pushes
\* the leaves onto tree[0] (a TypeError when there is no tree[0]) and rebuilds
insertLeaves(self, leaves) ==
    IF Len(leaves) = 0
    THEN [error |-> "none", self |-> self]
    ELSE IF 0 \notin DOMAIN self.tree
    THEN [error |-> "TypeError", self |-> self]
    ELSE [error |-> "none",
          self |-> [self EXCEPT !.tree =
                       Rebuild(self, [self.tree EXCEPT ![0] = @ \o leaves], 0)]]

\* root taken from the end of the top level
root_LastEntry(self) ==
    At(self.tree[self.depth], Len(self.tree[self.depth]) - 1)

\* get root(): tree[depth][0]
root(self) == At(self.tree[self.depth], 0)

NoProof == [leaf |-> Undefined, pathElements |-> <<>>, leafIndex |-> 0 - 1]

\* ProofPath without the `?? emptyBranchLevels[level]` for a missing sibling
RECURSIVE ProofPath_NoEmptyBranch(_, _, _)
ProofPath_NoEmptyBranch(self, level, curIndex) ==
    IF level >= self.depth
    THEN <<>>
    ELSE <<IF curIndex % 2 = 0
           THEN At(self.tree[level], curIndex + 1)
           ELSE At(self.tree[level], curIndex - 1)>>
         \o ProofPath_NoEmptyBranch(self, level + 1, curIndex \div 2)

\* ProofPath taking the right neighbour on both sides
RECURSIVE ProofPath_AlwaysRight(_, _, _)
ProofPath_AlwaysRight(self, level, curIndex) ==
    IF level >= self.depth
    THEN <<>>
    ELSE <<IF curIndex % 2 = 0
           THEN Nullish(At(self.tree[level], curIndex + 1),
                        At(self.emptyBranchLevels, level))
           ELSE At(self.tree[level], curIndex + 1)>>
         \o ProofPath_AlwaysRight(self, level + 1, curIndex \div 2)

\* the walk up the tree of createProof, from `level` with index curIndex
RECURSIVE ProofPath(_, _, _)
ProofPath(self, level, curIndex) ==
    IF level >= self.depth
    THEN <<>>
    ELSE <<IF curIndex % 2 = 0
           THEN Nullish(At(self.tree[level], curIndex + 1),
                        At(self.emptyBranchLevels, level))
           ELSE At(self.tree[level], curIndex - 1)>>
         \o ProofPath(self, level + 1, curIndex \div 2)

\* createProof without the check of indexOf's -1
createProof_NoCheck(self, leaf) ==
    IF 0 \notin DOMAIN self.tree
    THEN [error |-> "TypeError", proof |-> NoProof]
    ELSE LET leafIndex == IndexOf(self.tree[0], leaf)
         IN  [error |-> "none",
              proof |-> [leaf |-> leaf,
                         pathElements |-> ProofPath(self, 0, leafIndex),
                         leafIndex |-> leafIndex]]

\* createProof(leaf): the Error "Can not create Merkle proof because ... is not
\* in the list of leaves" is the spec's LeafNotFound
createProof(self, leaf) ==
    IF 0 \notin DOMAIN self.tree
    THEN [error |-> "TypeError", proof |-> NoProof]
    ELSE LET leafIndex == IndexOf(self.tree[0], leaf)
         IN  IF leafIndex = 0 - 1
             THEN [error |-> "LeafNotFound", proof |-> NoProof]
             ELSE [error |-> "none",
                   proof |-> [leaf |-> leaf,
                              pathElements |-> ProofPath(self, 0, leafIndex),
                              leafIndex |-> leafIndex]]

\* HashUp with the current node on the left at every step
RECURSIVE HashUp_NeverOnRight(_, _, _)
HashUp_NeverOnRight(p, i, currentNode) ==
    IF i >= Len(p.pathElements)
    THEN currentNode
    ELSE HashUp_NeverOnRight(p, i + 1,
                             calculateNodeHash(currentNode, At(p.pathElements, i)))

\* HashUp deciding the side at every step by the lowest bit of leafIndex
RECURSIVE HashUp_LowestBitOnly(_, _, _)
HashUp_LowestBitOnly(p, i, currentNode) ==
    IF i >= Len(p.pathElements)
    THEN currentNode
    ELSE LET isNodeOnRight == p.leafIndex % 2 = 1
         IN  HashUp_LowestBitOnly(p, i + 1,
                    IF isNodeOnRight
                    THEN calculateNodeHash(At(p.pathElements, i), currentNode)
                    ELSE calculateNodeHash(currentNode, At(p.pathElements, i)))

\* the loop of getMerkleRootFromProof from step i with node currentNode
RECURSIVE HashUp(_, _, _)
HashUp(p, i, currentNode) ==
    IF i >= Len(p.pathElements)
    THEN currentNode
    ELSE LET isNodeOnRight == (p.leafIndex \div Pow2(i)) % 2 = 1
         IN  HashUp(p, i + 1,
                    IF isNodeOnRight
                    THEN calculateNodeHash(At(p.pathElements, i), currentNode)
                    ELSE calculateNodeHash(currentNode, At(p.pathElements, i)))

getMerkleRootFromProof(p) == HashUp(p, 0, p.leaf)

-----------------------------------------------------------------------------
(* lib/shamirTools.ts: Shamir's secret sharing over a prime field *)

\* order of the prime field the model runs over (the code gets eddsa.F); it
\* is larger than every share index, as the code's field is
Fields == {7}

\* the elements of the fields
FieldElements == UNION {0..(F - 1) : F \in Fields}

\* thresholds of the schemes in the tests: 3 of n and 2 of 3
Thresholds == {2, 3}

\* the inverse of a non-zero element a of the field of order F (0 has none;
\* reconstructShamirSecret fails before it would divide by 0)
FieldInverse(F, a) ==
    IF a % F = 0 THEN 0 ELSE CHOOSE x \in 1..(F - 1) : (a * x) % F = 1

\* poly[1] + poly[2] x + ... + poly[k] x^(k-1) in the field, by Horner's rule
RECURSIVE EvalPoly(_, _, _, _)
EvalPoly(F, poly, x, i) ==
    IF i > Len(poly)
    THEN 0
    ELSE (poly[i] + x * EvalPoly(F, poly, x, i + 1)) % F

\* the share with the given index: the polynomial's value there
ShareOf(F, poly, index) == <<index, EvalPoly(F, poly, index, 1)>>

\* HasDuplicateIndex looking at neighbouring shares only
HasDuplicateIndex_Adjacent(F, shares) ==
    \E i \in 1..(Len(shares) - 1) :
        (shares[i][1] - shares[i + 1][1]) % F = 0

\* two of the shares have the same index in the field
HasDuplicateIndex(F, shares) ==
    \E i, j \in 1..Len(shares) :
        i # j /\ (shares[i][1] - shares[j][1]) % F = 0

\* LagrangeAtZero with the numerators taken as index_j instead of 0 - index_j
RECURSIVE LagrangeAtZero_PositiveNumerator(_, _, _, _)
LagrangeAtZero_PositiveNumerator(F, shares, i, j) ==
    IF j > Len(shares)
    THEN 1
    ELSE IF j = i
    THEN LagrangeAtZero_PositiveNumerator(F, shares, i, j + 1)
    ELSE ((shares[j][1] % F)
          * FieldInverse(F, (shares[i][1] - shares[j][1]) % F)
          * LagrangeAtZero_PositiveNumerator(F, shares, i, j + 1)) % F

\* the Lagrange basis polynomial of share i at x = 0:
\* the product over j # i of (0 - index_j) / (index_i - index_j)
RECURSIVE LagrangeAtZero(_, _, _, _)
LagrangeAtZero(F, shares, i, j) ==
    IF j > Len(shares)
    THEN 1
    ELSE IF j = i
    THEN LagrangeAtZero(F, shares, i, j + 1)
    ELSE (((0 - shares[j][1]) % F)
          * FieldInverse(F, (shares[i][1] - shares[j][1]) % F)
          * LagrangeAtZero(F, shares, i, j + 1)) % F

\* InterpolateAtZero leaving the last share out of the sum
RECURSIVE InterpolateAtZero_WithoutLast(_, _, _)
InterpolateAtZero_WithoutLast(F, shares, i) ==
    IF i >= Len(shares)
    THEN 0
    ELSE ((shares[i][2] % F) * LagrangeAtZero(F, shares, i, 1)
          + InterpolateAtZero_WithoutLast(F, shares, i + 1)) % F

\* the sum over the shares i.. of value_i * basis_i(0)
RECURSIVE InterpolateAtZero(_, _, _)
InterpolateAtZero(F, shares, i) ==
    IF i > Len(shares)
    THEN 0
    ELSE ((shares[i][2] % F) * LagrangeAtZero(F, shares, i, 1)
          + InterpolateAtZero(F, shares, i + 1)) % F

\* reconstructShamirSecret(field, threshold, shares): the Lagrange
\* interpolation of the shares at x = 0; a division by zero (two shares with
\* the same index) is the MalformedShares error
reconstructShamirSecret(F, threshold, shares) ==
    IF HasDuplicateIndex(F, shares)
    THEN [error |-> "MalformedShares", secret |-> 0 - 1]
    ELSE [error |-> "none", secret |-> InterpolateAtZero(F, shares, 1)]

\* the elements of a set of integers as an ascending sequence
RECURSIVE Ascending(_)
Ascending(S) ==
    IF S = {}
    THEN <<>>
    ELSE LET m == CHOOSE x \in S : \A y \in S : x <= y
         IN  <<m>> \o Ascending(S \ {m})

-----------------------------------------------------------------------------
(* MockZkCertificateRegistry.sol and the checks of the proof verifier *)

\* bytes32(0), the value of merkleRoot in a freshly deployed registry
ZeroRoot == "0x00"

\* roots the tests set in the registry
SettableRoots == {"publicRoot", "0x11"}

\* roots found in the public outputs of submitted proofs
PublicRoots == SettableRoots \cup {"0x22"}

\* MockZkCertificateRegistry.merkleRootIndex(bytes32)
merkleRootIndex(registry, proofRoot) == 1

\* MockZkCertificateRegistry.merkleRootValidIndex()
merkleRootValidIndex(registry) == 1

\* the tolerance of the time check in seconds
timeDifferenceTolerance == 30 * 60

\* the current time the proofs were generated for, in seconds
PublicTimes == {2000}

\* distances of the block timestamp from a proof's time the model visits:
\* 29, 30 and 31 minutes and the tests' 30 minutes and 200 seconds, the
\* boundary and a second past it
TimeOffsets == {0 - 1860, 0 - 1801, 0 - 1800, 0 - 1740, 0,
                1740, 1800, 1801, 1860, 30 * 60 + 200}

\* the address the proofs authorize, and the senders of the transactions
AuthorizedAddresses == {"user"}
Submitters == {"user", "randomUser"}

\* the investigation institutions the verifier is deployed with, by their
\* position in its list
Institutions == {0, 1}

\* the public key of an institution that never had one set
ZeroPubKey == <<0, 0>>

\* the public key of institution i the proofs were generated for, as its two
\* coordinates
ProofPubKey(i) == <<10 * (i + 1) + 1, 10 * (i + 1) + 2>>

\* the keys set for institution i: the one of the proofs, and that key with
\* one added to its first or to its second coordinate
PubKeys(i) ==
    {ProofPubKey(i),
     <<ProofPubKey(i)[1] + 1, ProofPubKey(i)[2]>>,
     <<ProofPubKey(i)[1], ProofPubKey(i)[2] + 1>>}

\* the slots of the public outputs from START_INDEX_INVESTIGATION_INSTITUTIONS
\* on: the coordinates of institution i at offsets 2i and 2i + 1
RECURSIVE InstitutionSlots(_)
InstitutionSlots(n) ==
    IF n = 0 THEN <<>> ELSE InstitutionSlots(n - 1) \o ProofPubKey(n - 1)

\* the public outputs of a proof the verifier reads
PublicOutputs ==
    [root : PublicRoots, currentTime : PublicTimes, isValid : {0, 1},
     userAddress : AuthorizedAddresses,
     institutionPubKeys : {InstitutionSlots(Cardinality(Institutions))}]

AbsDiff(a, b) == IF a >= b THEN a - b ELSE b - a

\* check 1: the root is one the registry knows and has not invalidated
RootCheck(registry, outputs) ==
    merkleRootIndex(registry, outputs.root) >= merkleRootValidIndex(registry)

\* TimeCheck accepting every proof generated for a time after the block's
TimeCheck_OnlyLate(timestamp, outputs) ==
    timestamp - outputs.currentTime <= timeDifferenceTolerance

\* check 2: the proof's time is within the tolerance of the block timestamp
TimeCheck(timestamp, outputs) ==
    AbsDiff(timestamp, outputs.currentTime) <= timeDifferenceTolerance

\* check 3: the circuit found the certificate valid
ValidityCheck(outputs) == outputs.isValid = 1

\* check 4: the sender is the address the proof authorizes
AuthorizationCheck(sender, outputs) == sender = outputs.userAddress

\* InstitutionKeyCheck comparing the first coordinates only
InstitutionKeyCheck_FirstPartOnly(institutions, outputs) ==
    \A i \in DOMAIN institutions :
        institutions[i][1] = At(outputs.institutionPubKeys, 2 * i)

\* check 5: both coordinates of every institution's registered key are those
\* in the outputs
InstitutionKeyCheck(institutions, outputs) ==
    \A i \in DOMAIN institutions :
        /\ institutions[i][1] = At(outputs.institutionPubKeys, 2 * i)
        /\ institutions[i][2] = At(outputs.institutionPubKeys, 2 * i + 1)

\* verifyProof with the time check made before the validity flag is read
verifyProof_TimeBeforeValidity(registry, institutions, timestamp, sender, outputs) ==
    IF ~RootCheck(registry, outputs) THEN "StaleOrUnknownRoot"
    ELSE IF ~TimeCheck(timestamp, outputs) THEN "TimeOutOfBounds"
    ELSE IF ~ValidityCheck(outputs) THEN "InvalidAttestation"
    ELSE IF ~AuthorizationCheck(sender, outputs) THEN "UnauthorizedSubmitter"
    ELSE IF ~InstitutionKeyCheck(institutions, outputs) THEN "InstitutionKeyMismatch"
    ELSE "none"

\* verifyProof: the first check that fails names the error.  The validity
\* flag is read before the time is compared: a proof generated for a time
\* after the certificate's expiration, submitted at the unchanged block time,
\* reverts with 'the proof output is not valid'
verifyProof(registry, institutions, timestamp, sender, outputs) ==
    IF ~RootCheck(registry, outputs) THEN "StaleOrUnknownRoot"
    ELSE IF ~ValidityCheck(outputs) THEN "InvalidAttestation"
    ELSE IF ~TimeCheck(timestamp, outputs) THEN "TimeOutOfBounds"
    ELSE IF ~AuthorizationCheck(sender, outputs) THEN "UnauthorizedSubmitter"
    ELSE IF ~InstitutionKeyCheck(institutions, outputs) THEN "InstitutionKeyMismatch"
    ELSE "none"

-----------------------------------------------------------------------------
(* contract AirdropGateway, with the ERC20 and ERC721 contracts it calls *)

\* address(0), the value of an address field never written
ZeroAddress == "0x00"

\* the account given DEFAULT_ADMIN_ROLE by the constructor
Owner == "deployer"

\* the ERC20 contracts; clientToken is a token contract that is also a client
\* of the gateway and airdrops its own token
Tokens == {"rewardToken", "clientToken"}

\* the accounts the owner whitelists as clients
PotentialClients == {"client", "clientToken"}

\* the accounts that register and claim
Users == {"user", "user2"}

\* the accounts whose token balances are kept
TokenHolders == {"gateway"} \cup PotentialClients \cup Users

\* the requiredSBTs lists given to setDistribution, and who holds that SBT
RequiredSBTLists == {<<"GalaSBT">>}
SBTHolders == {"user", "user2"}

\* IERC721(sbt).balanceOf(account)
balanceOf(sbt, account) == IF account \in SBTHolders THEN 1 ELSE 0

\* the AirdropDistribution struct built from its fields in declaration order
AirdropDistribution(a1, a2, a3, a4, a5, a6, a7, a8, a9, a10, a11) ==
    [requiredSBTs |-> a1,
     registrationStartTime |-> a2,
     registrationEndTime |-> a3,
     claimStartTime |-> a4,
     claimEndTime |-> a5,
     clientAddress |-> a6,
     tokenAddress |-> a7,
     distributionAmount |-> a8,
     registeredUserCount |-> a9,
     tokenAmountPerUser |-> a10,
     amountClaimed |-> a11]

\* a distributions entry never written: every field zero
EmptyDistribution ==
    AirdropDistribution(<<>>, 0, 0, 0, 0, ZeroAddress, ZeroAddress, 0, 0, 0, 0)

\* the ids the gateway is called with: that of the distribution that is set
\* up and one that never is
DistributionIds == {0, 1}

\* IERC20(token).transfer / transferFrom of amount from one holder to
\* another: a call to an address without token code reverts, and the token
\* reverts when the balance is too low (allowances are taken as given)
ERC20Transfer(balances, token, from, to, amount) ==
    IF token \notin Tokens
    THEN [error |-> "call to non-contract account", balances |-> balances]
    ELSE IF balances[token][from] < amount
    THEN [error |-> "ERC20: transfer amount exceeds balance", balances |-> balances]
    ELSE [error |-> "none",
          balances |-> [balances EXCEPT ![token][from] = @ - amount,
                                        ![token][to] = @ + amount]]

\* the result of a call that reverts: nothing changes
Revert(g, error) == [error |-> error, g |-> g, transferred |-> 0]

\* the result of a call that returns
Return(g, transferred) == [error |-> "none", g |-> g, transferred |-> transferred]

MissingRole == "AccessControl: account is missing role"

\* whitelistClient(newClient) onlyRole(DEFAULT_ADMIN_ROLE)
whitelistClient(g, sender, newClient) ==
    IF sender # Owner
    THEN Revert(g, MissingRole)
    ELSE Return([g EXCEPT !.clients = @ \cup {newClient}], 0)

\* dewhitelistClient(client) onlyRole(DEFAULT_ADMIN_ROLE)
dewhitelistClient(g, sender, client) ==
    IF sender # Owner
    THEN Revert(g, MissingRole)
    ELSE Return([g EXCEPT !.clients = @ \ {client}], 0)

\* setDistribution(requiredSBTs, tokenAddress, registrationStartTime,
\* registrationEndTime, claimStartTime, claimEndTime) onlyRole(CLIENT_ROLE)
setDistribution(g, sender, requiredSBTs, tokenAddress, registrationStartTime, registrationEndTime, claimStartTime, claimEndTime) ==
    IF sender \notin g.clients
    THEN Revert(g, MissingRole)
    ELSE IF ~(registrationStartTime < registrationEndTime)
    THEN Revert(g, "invalid registration time")
    ELSE IF ~(registrationEndTime < claimStartTime)
    THEN Revert(g, "claim can only start after registration ends")
    ELSE IF ~(claimStartTime < claimEndTime)
    THEN Revert(g, "invalid claim time")
    ELSE Return([g EXCEPT
                    !.distributions[g.distributionIndexCounter] =
                        AirdropDistribution(requiredSBTs, registrationStartTime,
                            registrationEndTime, claimStartTime, claimEndTime,
                            tokenAddress, sender, 0, 0, 0, 0),
                    !.distributionIndexCounter = @ + 1], 0)

\* deposit(distributionId, amount) onlyRole(CLIENT_ROLE)
deposit(g, sender, distributionId, amount) ==
    IF sender \notin g.clients
    THEN Revert(g, MissingRole)
    ELSE LET d == g.distributions[distributionId]
             t == ERC20Transfer(g.balances, d.tokenAddress, sender, "gateway", amount)
         IN  IF t.error # "none"
             THEN Revert(g, t.error)
             ELSE IF d.clientAddress # sender
             THEN Revert(g, "only client can deposit")
             ELSE Return([g EXCEPT
                             !.balances = t.balances,
                             !.distributions[distributionId].distributionAmount
                                 = @ + amount], 0)

\* withdrawRemainingToken(distributionId) onlyRole(CLIENT_ROLE)
withdrawRemainingToken(g, sender, distributionId) ==
    IF sender \notin g.clients
    THEN Revert(g, MissingRole)
    ELSE LET d == g.distributions[distributionId]
             amountLeft == d.distributionAmount - d.amountClaimed
             t == ERC20Transfer(g.balances, d.tokenAddress, "gateway", sender, amountLeft)
         IN  IF d.clientAddress # sender
             THEN Revert(g, "only client can deposit")
             ELSE IF ~(d.claimEndTime < g.timestamp)
             THEN Revert(g, "claim has not ended yet")
             ELSE IF amountLeft < 0
             THEN Revert(g, "arithmetic underflow")
             ELSE IF t.error # "none"
             THEN Revert(g, t.error)
             ELSE Return([g EXCEPT !.balances = t.balances], amountLeft)

\* register(distributionId)
register(g, sender, distributionId) ==
    LET d == g.distributions[distributionId]
    IN  IF ~(d.registrationStartTime < g.timestamp)
        THEN Revert(g, "registration has not started yet")
        ELSE IF ~(d.registrationEndTime > g.timestamp)
        THEN Revert(g, "registration has ended")
        ELSE IF \E i \in 1..Len(d.requiredSBTs) :
                    ~(balanceOf(d.requiredSBTs[i], sender) > 0)
        THEN Revert(g, "user does not have required SBT")
        ELSE Return([g EXCEPT
                        !.registeredUsers[distributionId] = @ \cup {sender},
                        !.distributions[distributionId].registeredUserCount
                            = @ + 1], 0)

\* claim(distributionId)
claim(g, sender, distributionId) ==
    LET d == g.distributions[distributionId]
    IN  IF ~(d.claimStartTime < g.timestamp)
        THEN Revert(g, "claim has not started yet")
        ELSE IF ~(d.claimEndTime > g.timestamp)
        THEN Revert(g, "claim has ended")
        ELSE IF sender \notin g.registeredUsers[distributionId]
        THEN Revert(g, "user has not registered")
        ELSE LET tokenAmountPerUser ==
                     IF d.tokenAmountPerUser = 0
                     THEN d.distributionAmount \div d.registeredUserCount
                     ELSE d.tokenAmountPerUser
                 t == ERC20Transfer(g.balances, d.tokenAddress, "gateway",
                                    sender, tokenAmountPerUser)
             IN  IF t.error # "none"
                 THEN Revert(g, t.error)
                 ELSE Return([g EXCEPT
                                 !.distributions[distributionId].tokenAmountPerUser
                                     = tokenAmountPerUser,
                                 !.balances = t.balances,
                                 !.claimedUsers[distributionId] = @ \cup {sender}],
                             tokenAmountPerUser)

-----------------------------------------------------------------------------
(* processRpcRequest of the snap, with the state management and the zkCert *)
(* selection it calls                                                      *)

\* a request parameter that is left out (undefined)
NoValue == "undefined"

\* the origin of the requests
Origin == "dapp"

\* the holder commitments: of the holder set up in the wallet, and of another
HolderCommitments == {"commitment1", "commitment2"}

\* the leaf hashes of the zkCerts websites ask to import
LeafHashes == {"leaf1", "leaf2"}

\* the zkCertStandard of the zkCerts, and the standards requests ask for
ZkCertStandards == {"zkKYC"}
RequestedStandards == ZkCertStandards \cup {"twitterZkCertificate"}

\* the zkCerts websites ask to import, as they come with their first proof
ImportableZkCerts ==
    {[leafHash |-> l, holderCommitment |-> c, zkCertStandard |-> standard,
      merkleProof |-> [leaf |-> l, pathElements |-> "imported"]] :
        l \in LeafHashes, c \in HolderCommitments, standard \in ZkCertStandards}

\* the merkle proofs of update requests: one per leaf, one of them for a leaf
\* never imported, and a second proof for the first leaf
MerkleProofUpdates ==
    [leaf : LeafHashes \cup {"leaf3"}, pathElements : {"updated"}]
    \cup {[leaf |-> "leaf1", pathElements |-> "updatedAgain"]}

\* getState(snap): the persisted state, as a copy the request works on
getState(persisted) == persisted

\* saveState(snap, newState): newState replaces the persisted state
saveState(persisted, newState) == newState

\* state.holders.find(candidate => candidate.holderCommitment === c): the
\* position of the first match, 0 when find returns undefined
FindHolder(holders, holderCommitment) ==
    LET found == {i \in 1..Len(holders) : holders[i].holderCommitment = holderCommitment}
    IN  IF found = {} THEN 0 ELSE CHOOSE i \in found : \A j \in found : i <= j

\* state.zkCerts.find(cert => cert.leafHash === leafHash), likewise
FindZkCert(zkCerts, leafHash) ==
    LET found == {i \in 1..Len(zkCerts) : zkCerts[i].leafHash = leafHash}
    IN  IF found = {} THEN 0 ELSE CHOOSE i \in found : \A j \in found : i <= j

\* selectZkCert(snap, zkCerts, zkCertStandard): the positions it can return,
\* those of the stored zkCerts of the standard (the user picks when there
\* are several); 0 stands for its error when there is none
selectZkCert(zkCerts, zkCertStandard) ==
    LET matching == {i \in 1..Len(zkCerts) : zkCerts[i].zkCertStandard = zkCertStandard}
    IN  IF matching = {} THEN {0} ELSE matching

\* getZkCertStorageOverview(zkCertStorage): per zkCertStandard the disclosed
\* metadata of its zkCerts (here: how many there are)
getZkCertStorageOverview(zkCertStorage) ==
    [standard \in {zkCertStorage[i].zkCertStandard : i \in 1..Len(zkCertStorage)} |->
        Cardinality({i \in 1..Len(zkCertStorage) :
                        zkCertStorage[i].zkCertStandard = standard})]

\* getZkCertStorageHashes(zkCertStorage, origin): per zkCertStandard the hash
\* chain keccak256(previous + JSON(zkCert)) started from keccak256(origin)
RECURSIVE StorageHashUpTo(_, _, _, _)
StorageHashUpTo(zkCertStorage, origin, standard, n) ==
    IF n = 0
    THEN <<origin>>
    ELSE IF zkCertStorage[n].zkCertStandard = standard
    THEN <<StorageHashUpTo(zkCertStorage, origin, standard, n - 1), zkCertStorage[n]>>
    ELSE StorageHashUpTo(zkCertStorage, origin, standard, n - 1)

getZkCertStorageHashes(zkCertStorage, origin) ==
    [standard \in {zkCertStorage[i].zkCertStandard : i \in 1..Len(zkCertStorage)} |->
        StorageHashUpTo(zkCertStorage, origin, standard, Len(zkCertStorage))]

\* UpdateMerkleProofs going on with the next proof when a proof has no zkCert
RECURSIVE UpdateMerkleProofs_SkipsUnknown(_, _, _)
UpdateMerkleProofs_SkipsUnknown(zkCerts, proofs, i) ==
    IF i > Len(proofs)
    THEN [found |-> TRUE, zkCerts |-> zkCerts]
    ELSE LET at == FindZkCert(zkCerts, proofs[i].leaf)
         IN  IF at = 0
             THEN UpdateMerkleProofs_SkipsUnknown(zkCerts, proofs, i + 1)
             ELSE UpdateMerkleProofs_SkipsUnknown(
                      [zkCerts EXCEPT ![at].merkleProof = proofs[i]], proofs, i + 1)

\* the loop of UpdateMerkleProof from proof i on: each proof replaces the
\* merkleProof of the first zkCert with its leaf, a proof without one throws
RECURSIVE UpdateMerkleProofs(_, _, _)
UpdateMerkleProofs(zkCerts, proofs, i) ==
    IF i > Len(proofs)
    THEN [found |-> TRUE, zkCerts |-> zkCerts]
    ELSE LET at == FindZkCert(zkCerts, proofs[i].leaf)
         IN  IF at = 0
             THEN [found |-> FALSE, zkCerts |-> zkCerts]
             ELSE UpdateMerkleProofs([zkCerts EXCEPT ![at].merkleProof = proofs[i]],
                                     proofs, i + 1)

\* state.zkCerts.filter(zkCert => zkCert.leafHash != leafHash)
RECURSIVE FilterOutLeafHash(_, _)
FilterOutLeafHash(zkCerts, leafHash) ==
    IF zkCerts = <<>>
    THEN <<>>
    ELSE IF Head(zkCerts).leafHash # leafHash
    THEN <<Head(zkCerts)>> \o FilterOutLeafHash(Tail(zkCerts), leafHash)
    ELSE FilterOutLeafHash(Tail(zkCerts), leafHash)

\* how a request ends: with an error thrown or a value returned
Throw(msg) == [kind |-> "throw", msg |-> msg, data |-> <<>>]
Returned(msg, data) == [kind |-> "return", msg |-> msg, data |-> data]

\* the methods that ask the user for a confirmation
DialogMethods ==
    {"genZkKycProof", "clearStorage", "importZkCert", "exportZkCert",
     "getHolderCommitment", "listZkCerts", "getZkCertHash", "updateMerkleProof",
     "deleteZkCert"}

\* processRpcRequest from its start to its confirmation dialog: the result
\* when the request ends before the dialog, Pending when the dialog is shown;
\* selected is what selectZkCert returned (DeleteZkCert calls it first)
Pending == [kind |-> "dialog", msg |-> "snap_dialog", data |-> <<>>]

processRpcRequest_NoDuplicateCheck(state, request, selected) ==
    LET params == request.params
    IN  CASE request.method = "genZkKycProof" ->
                IF params.userAddress = NoValue
                THEN Throw("userAddress missing in request parameters.")
                ELSE IF params.zkCertStandard = NoValue
                THEN Throw("ZkCert standard missing in request parameters.")
                ELSE Pending
          [] request.method = "importZkCert" ->
                IF FindHolder(state.holders, params.zkCert.holderCommitment) = 0
                THEN Throw("Could not find Holder for commitment")
                ELSE Pending
          [] request.method = "getHolderCommitment" ->
                IF Len(state.holders) = 0 THEN Throw("MissingHolder") ELSE Pending
          [] request.method = "getZkCertStorageHashes" ->
                Returned("storageHashes", getZkCertStorageHashes(state.zkCerts, Origin))
          [] request.method = "deleteZkCert" ->
                IF selected = 0 THEN Throw("selectZkCert failed") ELSE Pending
          [] request.method \in {"clearStorage", "exportZkCert", "listZkCerts",
                                 "getZkCertHash", "updateMerkleProof"} ->
                Pending
          [] OTHER -> Throw("UnknownMethod")

\* processRpcRequest importing zkCerts of holders that are not set up
processRpcRequest_NoHolderCheck(state, request, selected) ==
    LET params == request.params
    IN  CASE request.method = "genZkKycProof" ->
                IF params.userAddress = NoValue
                THEN Throw("userAddress missing in request parameters.")
                ELSE IF params.zkCertStandard = NoValue
                THEN Throw("ZkCert standard missing in request parameters.")
                ELSE Pending
          [] request.method = "importZkCert" ->
                IF FindZkCert(state.zkCerts, params.zkCert.leafHash) # 0
                THEN Returned("ZkCertAlreadyImported", <<>>)
                ELSE Pending
          [] request.method = "getHolderCommitment" ->
                IF Len(state.holders) = 0 THEN Throw("MissingHolder") ELSE Pending
          [] request.method = "getZkCertStorageHashes" ->
                Returned("storageHashes", getZkCertStorageHashes(state.zkCerts, Origin))
          [] request.method = "deleteZkCert" ->
                IF selected = 0 THEN Throw("selectZkCert failed") ELSE Pending
          [] request.method \in {"clearStorage", "exportZkCert", "listZkCerts",
                                 "getZkCertHash", "updateMerkleProof"} ->
                Pending
          [] OTHER -> Throw("UnknownMethod")

processRpcRequest(state, request, selected) ==
    LET params == request.params
    IN  CASE request.method = "genZkKycProof" ->
                IF params.userAddress = NoValue
                THEN Throw("userAddress missing in request parameters.")
                ELSE IF params.zkCertStandard = NoValue
                THEN Throw("ZkCert standard missing in request parameters.")
                ELSE Pending
          [] request.method = "importZkCert" ->
                IF FindHolder(state.holders, params.zkCert.holderCommitment) = 0
                THEN Throw("Could not find Holder for commitment")
                ELSE IF FindZkCert(state.zkCerts, params.zkCert.leafHash) # 0
                THEN Returned("ZkCertAlreadyImported", <<>>)
                ELSE Pending
          [] request.method = "getHolderCommitment" ->
                IF Len(state.holders) = 0 THEN Throw("MissingHolder") ELSE Pending
          [] request.method = "getZkCertStorageHashes" ->
                Returned("storageHashes", getZkCertStorageHashes(state.zkCerts, Origin))
          [] request.method = "deleteZkCert" ->
                IF selected = 0 THEN Throw("selectZkCert failed") ELSE Pending
          [] request.method \in {"clearStorage", "exportZkCert", "listZkCerts",
                                 "getZkCertHash", "updateMerkleProof"} ->
                Pending
          [] OTHER -> Throw("UnknownMethod")

\* what a request does after its dialog: its result, and the state it saves
\* (saved is FALSE when it does not call saveState)
Unsaved(state, result) == [result |-> result, saved |-> FALSE, state |-> state]
Saved(state, result) == [result |-> result, saved |-> TRUE, state |-> state]

\* AfterConfirm saving the state also when the user declined
AfterConfirm_SavesOnReject(state, request, confirm, selected) ==
    Saved([holders |-> <<>>, zkCerts |-> <<>>], Throw("RejectedConfirm"))

\* processRpcRequest from the answer of the dialog on; selected is what
\* selectZkCert returns or returned
AfterConfirm(state, request, confirm, selected) ==
    LET params == request.params
    IN  IF ~confirm
        THEN Unsaved(state, Throw("RejectedConfirm"))
        ELSE CASE request.method = "genZkKycProof" ->
                    IF selected = 0
                    THEN Unsaved(state, Throw("selectZkCert failed"))
                    ELSE LET zkCert == state.zkCerts[selected]
                             holder == FindHolder(state.holders, zkCert.holderCommitment)
                             searchedZkCert == FindZkCert(state.zkCerts, zkCert.leafHash)
                         IN  IF holder = 0
                             THEN Unsaved(state, Throw("Holder for commitment could not be found"))
                             ELSE IF searchedZkCert = 0
                             THEN Unsaved(state, Throw("zkCert with leafHash could not be found"))
                             ELSE Unsaved(state, Returned("proof",
                                     [zkCert |-> zkCert.leafHash,
                                      holder |-> state.holders[holder].holderCommitment,
                                      merkleProof |-> state.zkCerts[searchedZkCert].merkleProof]))
               [] request.method = "clearStorage" ->
                    Saved([holders |-> <<>>, zkCerts |-> <<>>],
                          Returned("StorageCleared", <<>>))
               [] request.method = "importZkCert" ->
                    LET pushed == [state EXCEPT !.zkCerts = Append(@, params.zkCert)]
                    IN  Saved(pushed,
                              IF params.listZkCerts
                              THEN Returned("overview", getZkCertStorageOverview(pushed.zkCerts))
                              ELSE Returned("ZkCertImported", <<>>))
               [] request.method = "exportZkCert" ->
                    IF selected = 0
                    THEN Unsaved(state, Throw("selectZkCert failed"))
                    ELSE Unsaved(state, Returned("zkCert",
                            state.zkCerts[FindZkCert(state.zkCerts,
                                                     state.zkCerts[selected].leafHash)]))
               [] request.method = "getHolderCommitment" ->
                    Unsaved(state, Returned("holderCommitment",
                                            state.holders[1].holderCommitment))
               [] request.method = "listZkCerts" ->
                    Unsaved(state, Returned("overview", getZkCertStorageOverview(state.zkCerts)))
               [] request.method = "getZkCertHash" ->
                    Unsaved(state, Returned("leafHashes",
                            [i \in 1..Len(state.zkCerts) |-> state.zkCerts[i].leafHash]))
               [] request.method = "updateMerkleProof" ->
                    LET updated == UpdateMerkleProofs(state.zkCerts, params.proofs, 1)
                    IN  IF ~updated.found
                        THEN Unsaved([state EXCEPT !.zkCerts = updated.zkCerts],
                                     Throw("The zkCert with leaf hash was not found in the wallet"))
                        ELSE Saved([state EXCEPT !.zkCerts = updated.zkCerts],
                                   Returned("MerkleProofsUpdated", <<>>))
               [] request.method = "deleteZkCert" ->
                    Saved([state EXCEPT !.zkCerts =
                              FilterOutLeafHash(@, state.zkCerts[selected].leafHash)],
                          Returned("ZkCertDeleted", <<>>))

-----------------------------------------------------------------------------
(* The tree and its callers as a state machine *)

NoOp == [name |-> "new", leaves |-> <<>>, leaf |-> Undefined, error |-> "none"]

ShamirIdle == [phase |-> "idle"]

ChainIdle == [phase |-> "idle"]

GatewayIdle == [phase |-> "idle"]

SnapIdle == [phase |-> "idle"]

Init ==
    /\ \E d \in Depths :
          LET r == MerkleTreeNew(d)
          IN  /\ constructed = r.ok
              /\ merkleTree = r.self
              /\ prev = r.self
              /\ op = [NoOp EXCEPT !.error = IF r.ok THEN "none" ELSE "RangeError"]
    /\ inserted = <<>>
    /\ proof = NoProof
    /\ computedRoot = Undefined
    /\ shamir = ShamirIdle
    /\ chain = ChainIdle
    /\ gateway = GatewayIdle
    /\ snap = SnapIdle

InsertLeaves(leaves) ==
    /\ constructed
    /\ Len(inserted) + Len(leaves) <= MaxLeaves
    /\ LET r == insertLeaves(merkleTree, leaves)
       IN  /\ merkleTree' = r.self
           /\ inserted' = IF r.error = "none" THEN inserted \o leaves ELSE inserted
           /\ op' = [name |-> "insertLeaves", leaves |-> leaves,
                     leaf |-> Undefined, error |-> r.error]
    /\ prev' = merkleTree
    /\ UNCHANGED <<constructed, proof, computedRoot, shamir, contractVars>>

CreateProof(leaf) ==
    /\ constructed
    /\ LET r == createProof(merkleTree, leaf)
       IN  /\ proof' = IF r.error = "none" THEN r.proof ELSE proof
           /\ op' = [name |-> "createProof", leaves |-> <<>>,
                     leaf |-> leaf, error |-> r.error]
    /\ prev' = merkleTree
    /\ UNCHANGED <<constructed, merkleTree, inserted, computedRoot, shamir, contractVars>>

GetMerkleRootFromProof ==
    /\ constructed
    /\ proof # NoProof
    /\ computedRoot' = getMerkleRootFromProof(proof)
    /\ op' = [name |-> "getMerkleRootFromProof", leaves |-> <<>>,
              leaf |-> proof.leaf, error |-> "none"]
    /\ prev' = merkleTree
    /\ UNCHANGED <<constructed, merkleTree, inserted, proof, shamir, contractVars>>

Next ==
    \/ \E leaves \in SeqsUpTo(LeafValues, MaxBatch) : InsertLeaves(leaves)
    \/ \E leaf \in LeafValues : CreateProof(leaf)
    \/ GetMerkleRootFromProof

Spec == Init /\ [][Next]_vars

-----------------------------------------------------------------------------
(* Shamir's secret sharing as a state machine: a secret is shared with a   *)
(* random polynomial of degree threshold - 1 whose constant term it is, and *)
(* institutions holding some of the shares reconstruct it                  *)

ShamirInit ==
    /\ constructed = FALSE
    /\ merkleTree = NoTree
    /\ prev = NoTree
    /\ op = NoOp
    /\ inserted = <<>>
    /\ proof = NoProof
    /\ computedRoot = Undefined
    /\ chain = ChainIdle
    /\ gateway = GatewayIdle
    /\ snap = SnapIdle
    /\ \E F \in Fields, k \in Thresholds :
          \E poly \in [1..k -> 0..(F - 1)] :
              shamir = [phase |-> "shared", field |-> F, threshold |-> k,
                        poly |-> poly, shares |-> <<>>,
                        secret |-> 0 - 1, error |-> "none"]

\* the valid shares with the given indices, in ascending order of index
SharesAt(indices) ==
    [i \in 1..Cardinality(indices) |->
        ShareOf(shamir.field, shamir.poly, Ascending(indices)[i])]

\* a call reconstructShamirSecret(field, threshold, shares), recorded in shamir
Reconstruct(phase, shares) ==
    \E r \in {reconstructShamirSecret(shamir.field, shamir.threshold, shares)} :
        shamir' = [shamir EXCEPT !.phase = phase, !.shares = shares,
                                 !.secret = r.secret, !.error = r.error]

\* threshold-many institutions with the given share indices reconstruct
ReconstructFromShares(indices) ==
    /\ shamir.phase = "shared"
    /\ Cardinality(indices) = shamir.threshold
    /\ \E shares \in {SharesAt(indices)} : Reconstruct("reconstructed", shares)
    /\ UNCHANGED <<treeVars, contractVars>>

\* one institution too few: threshold - 1 valid shares are given
ReconstructFromTooFew(indices) ==
    /\ shamir.phase = "shared"
    /\ Cardinality(indices) = shamir.threshold - 1
    /\ \E shares \in {SharesAt(indices)} : Reconstruct("tooFew", shares)
    /\ UNCHANGED <<treeVars, contractVars>>

\* threshold-many shares, the value of the one at position pos replaced by
\* another field element (the test replaces the second of three)
ReconstructWithForgedShare(indices, pos, value) ==
    /\ shamir.phase = "shared"
    /\ Cardinality(indices) = shamir.threshold
    /\ pos \in 1..shamir.threshold
    /\ value \in 0..(shamir.field - 1)
    /\ \E valid \in {SharesAt(indices)} :
          /\ value # valid[pos][2]
          /\ Reconstruct("forged", [valid EXCEPT ![pos] = <<valid[pos][1], value>>])
    /\ UNCHANGED <<treeVars, contractVars>>

\* malformed input: threshold-many shares of which the one at position pos is
\* given a second time in place of the last
ReconstructWithDuplicateIndex(indices, pos) ==
    /\ shamir.phase = "shared"
    /\ Cardinality(indices) = shamir.threshold
    /\ pos \in 1..(shamir.threshold - 1)
    /\ \E valid \in {SharesAt(indices)} :
          Reconstruct("duplicate", [valid EXCEPT ![shamir.threshold] = valid[pos]])
    /\ UNCHANGED <<treeVars, contractVars>>

ShamirNext ==
    \/ \E indices \in SUBSET (1..NumShares) : ReconstructFromShares(indices)
    \/ \E indices \in SUBSET (1..NumShares) : ReconstructFromTooFew(indices)
    \/ \E indices \in SUBSET (1..NumShares), pos \in 1..shamir.threshold,
          value \in FieldElements :
            ReconstructWithForgedShare(indices, pos, value)
    \/ \E indices \in SUBSET (1..NumShares), pos \in 1..shamir.threshold :
            ReconstructWithDuplicateIndex(indices, pos)

ShamirSpec == ShamirInit /\ [][ShamirNext]_vars

-----------------------------------------------------------------------------
(* Proof verification on a chain with a MockZkCertificateRegistry: the     *)
(* tests set roots in the registry, move the block time and submit proofs  *)

NoCall == [name |-> "deploy", error |-> "none"]
NoSubmission == [phase |-> "none"]

\* chain.registry is the contract's storage; rootsSet, validIndexAsked and
\* accepted are history: the roots given to setMerkleRoot in order, the
\* index last given to setMerkleRootValidIndex, the last accepted submission
VerifierInit ==
    /\ constructed = FALSE
    /\ merkleTree = NoTree
    /\ prev = NoTree
    /\ op = NoOp
    /\ inserted = <<>>
    /\ proof = NoProof
    /\ computedRoot = Undefined
    /\ shamir = ShamirIdle
    /\ gateway = GatewayIdle
    /\ snap = SnapIdle
    /\ \E publicTime \in PublicTimes :
          chain = [phase |-> "deployed",
                   registry |-> [merkleRoot |-> ZeroRoot],
                   institutions |-> [i \in Institutions |-> ZeroPubKey],
                   timestamp |-> publicTime - (30 * 60 + 200),
                   rootsSet |-> <<>>,
                   validIndexAsked |-> 1,
                   accepted |-> NoSubmission,
                   call |-> NoCall]

\* MockZkCertificateRegistry.setMerkleRoot(newMerkleRoot)
SetMerkleRoot(newMerkleRoot) ==
    /\ chain.phase = "deployed"
    /\ Len(chain.rootsSet) < MaxRootsSet
    /\ chain' = [chain EXCEPT
                    !.registry = [merkleRoot |-> newMerkleRoot],
                    !.rootsSet = Append(@, newMerkleRoot),
                    !.call = [name |-> "setMerkleRoot", error |-> "none"]]
    /\ UNCHANGED <<treeVars, shamir, gateway, snap>>

\* mockZkCertificateRegistry.setMerkleRootValidIndex(newValue): the contract
\* has no such function and no fallback, the call fails and changes nothing
SetMerkleRootValidIndex(newValue) ==
    /\ chain.phase = "deployed"
    /\ chain' = [chain EXCEPT
                    !.validIndexAsked = newValue,
                    !.call = [name |-> "setMerkleRootValidIndex",
                              error |-> "NoSuchFunction"]]
    /\ UNCHANGED <<treeVars, shamir, gateway, snap>>

\* mockGalacticaInstitutions[i].setInstitutionPubkey(newPubKey)
SetInstitutionPubkey(i, newPubKey) ==
    /\ chain.phase = "deployed"
    /\ chain' = [chain EXCEPT
                    !.institutions[i] = newPubKey,
                    !.call = [name |-> "setInstitutionPubkey", error |-> "none"]]
    /\ UNCHANGED <<treeVars, shamir, gateway, snap>>

\* evm_setNextBlockTimestamp and evm_mine: the block time moves forward
SetNextBlockTimestamp(timestamp) ==
    /\ chain.phase = "deployed"
    /\ timestamp > chain.timestamp
    /\ chain' = [chain EXCEPT
                    !.timestamp = timestamp,
                    !.call = [name |-> "evm_mine", error |-> "none"]]
    /\ UNCHANGED <<treeVars, shamir, gateway, snap>>

\* VerifyProof clearing the registry's root once it has accepted a proof
VerifyProof_ClearsRoot(sender, outputs) ==
    /\ chain.phase = "deployed"
    /\ \E error \in {verifyProof(chain.registry, chain.institutions, chain.timestamp, sender, outputs)} :
          chain' = [chain EXCEPT
                      !.registry = IF error = "none"
                                   THEN [merkleRoot |-> ZeroRoot] ELSE @,
                      !.accepted = IF error = "none"
                                   THEN [phase |-> "accepted", sender |-> sender,
                                         outputs |-> outputs]
                                   ELSE @,
                      !.call = [name |-> "verifyProof", error |-> error,
                                sender |-> sender, outputs |-> outputs,
                                registryBefore |-> chain.registry,
                                rootsSetBefore |-> chain.rootsSet,
                                acceptedBefore |-> chain.accepted]]
    /\ UNCHANGED <<treeVars, shamir, gateway, snap>>

\* sender submits a proof with the given public outputs: a view call that
\* reverts with the error of the first failing check
VerifyProof(sender, outputs) ==
    /\ chain.phase = "deployed"
    /\ \E error \in {verifyProof(chain.registry, chain.institutions, chain.timestamp, sender, outputs)} :
          chain' = [chain EXCEPT
                      !.accepted = IF error = "none"
                                   THEN [phase |-> "accepted", sender |-> sender,
                                         outputs |-> outputs]
                                   ELSE @,
                      !.call = [name |-> "verifyProof", error |-> error,
                                sender |-> sender, outputs |-> outputs,
                                registryBefore |-> chain.registry,
                                rootsSetBefore |-> chain.rootsSet,
                                acceptedBefore |-> chain.accepted]]
    /\ UNCHANGED <<treeVars, shamir, gateway, snap>>

VerifierNext ==
    \/ \E newMerkleRoot \in SettableRoots : SetMerkleRoot(newMerkleRoot)
    \/ \E newValue \in 1..(MaxRootsSet + 1) : SetMerkleRootValidIndex(newValue)
    \/ \E i \in Institutions : \E newPubKey \in PubKeys(i) :
          SetInstitutionPubkey(i, newPubKey)
    \/ \E publicTime \in PublicTimes, offset \in TimeOffsets :
          SetNextBlockTimestamp(publicTime + offset)
    \/ \E sender \in Submitters, outputs \in PublicOutputs :
          VerifyProof(sender, outputs)

VerifierSpec == VerifierInit /\ [][VerifierNext]_vars

-----------------------------------------------------------------------------
(* AirdropGateway on a chain: the owner whitelists clients, clients set up *)
(* and fund distributions, users register and claim as the time passes     *)

GatewayDeployed == gateway.phase = "deployed"

\* history kept per distribution id: the sender of the setDistribution call
\* that created it and the token address that call was given
NotCreated == [client |-> ZeroAddress, token |-> ZeroAddress]

AirdropInit ==
    /\ constructed = FALSE
    /\ merkleTree = NoTree
    /\ prev = NoTree
    /\ op = NoOp
    /\ inserted = <<>>
    /\ proof = NoProof
    /\ computedRoot = Undefined
    /\ shamir = ShamirIdle
    /\ chain = ChainIdle
    /\ snap = SnapIdle
    /\ gateway =
         [phase |-> "deployed",
          timestamp |-> 0,
          clients |-> {},
          distributionIndexCounter |-> 0,
          distributions |-> [id \in DistributionIds |-> EmptyDistribution],
          registeredUsers |-> [id \in DistributionIds |-> {}],
          claimedUsers |-> [id \in DistributionIds |-> {}],
          created |-> [id \in DistributionIds |-> NotCreated],
          paid |-> [id \in DistributionIds |-> 0],
          balances |-> [token \in Tokens |-> [holder \in TokenHolders |->
                           IF (token = "rewardToken" /\ holder = "client")
                              \/ (token = "clientToken" /\ holder = "clientToken")
                           THEN InitialBalance ELSE 0]],
          call |-> [name |-> "constructor", sender |-> Owner,
                    distributionId |-> 0, args |-> <<>>, error |-> "none",
                    transferred |-> 0, before |-> <<>>]]

\* a transaction: the contract's state is that of the result (unchanged by
\* a revert); call is history: the call, its result and what it found;
\* paid is history: the tokens the gateway has transferred out for each
\* distribution
Transact(name, sender, distributionId, args, r) ==
    gateway' = [r.g EXCEPT
                   !.paid[distributionId] = @ + r.transferred,
                   !.call = [name |-> name, sender |-> sender,
                             distributionId |-> distributionId, args |-> args,
                             error |-> r.error, transferred |-> r.transferred,
                             before |->
                               [distribution |-> gateway.distributions[distributionId],
                                registered |-> sender \in gateway.registeredUsers[distributionId],
                                claimed |-> sender \in gateway.claimedUsers[distributionId]]]]

\* evm_increaseTime and evm_mine
Mine ==
    /\ GatewayDeployed
    /\ gateway.timestamp < MaxTimestamp
    /\ gateway' = [gateway EXCEPT !.timestamp = @ + 1]
    /\ UNCHANGED <<treeVars, shamir, chain, snap>>

WhitelistClient(sender, newClient) ==
    /\ GatewayDeployed
    /\ \E r \in {whitelistClient(gateway, sender, newClient)} :
          Transact("whitelistClient", sender, 0, <<newClient>>, r)
    /\ UNCHANGED <<treeVars, shamir, chain, snap>>

DewhitelistClient(sender, client) ==
    /\ GatewayDeployed
    /\ \E r \in {dewhitelistClient(gateway, sender, client)} :
          Transact("dewhitelistClient", sender, 0, <<client>>, r)
    /\ UNCHANGED <<treeVars, shamir, chain, snap>>

SetDistribution(sender, requiredSBTs, tokenAddress, registrationStartTime, registrationEndTime, claimStartTime, claimEndTime) ==
    /\ GatewayDeployed
    /\ gateway.distributionIndexCounter + 1 \in DistributionIds
    /\ \E r0 \in {setDistribution(gateway, sender, requiredSBTs, tokenAddress,
                                   registrationStartTime, registrationEndTime,
                                   claimStartTime, claimEndTime)} :
       \E r \in {IF r0.error = "none"
                  THEN [r0 EXCEPT !.g.created[gateway.distributionIndexCounter] =
                                      [client |-> sender, token |-> tokenAddress]]
                  ELSE r0} :
          Transact("setDistribution", sender, gateway.distributionIndexCounter,
                   <<requiredSBTs, tokenAddress, registrationStartTime,
                     registrationEndTime, claimStartTime, claimEndTime>>, r)
    /\ UNCHANGED <<treeVars, shamir, chain, snap>>

Deposit(sender, distributionId, amount) ==
    /\ GatewayDeployed
    /\ \E r \in {deposit(gateway, sender, distributionId, amount)} :
          Transact("deposit", sender, distributionId, <<amount>>, r)
    /\ UNCHANGED <<treeVars, shamir, chain, snap>>

WithdrawRemainingToken(sender, distributionId) ==
    /\ GatewayDeployed
    /\ \E r \in {withdrawRemainingToken(gateway, sender, distributionId)} :
          Transact("withdrawRemainingToken", sender, distributionId, <<>>, r)
    /\ UNCHANGED <<treeVars, shamir, chain, snap>>

Register(sender, distributionId) ==
    /\ GatewayDeployed
    /\ gateway.distributions[distributionId].registeredUserCount < MaxRegistrations
    /\ \E r \in {register(gateway, sender, distributionId)} :
          Transact("register", sender, distributionId, <<>>, r)
    /\ UNCHANGED <<treeVars, shamir, chain, snap>>

Claim(sender, distributionId) ==
    /\ GatewayDeployed
    /\ \E r \in {claim(gateway, sender, distributionId)} :
          Transact("claim", sender, distributionId, <<>>, r)
    /\ UNCHANGED <<treeVars, shamir, chain, snap>>

AirdropNext ==
    \/ Mine
    \/ \E sender \in {Owner, "client"}, newClient \in PotentialClients :
          WhitelistClient(sender, newClient)
    \/ \E sender \in {Owner, "client"}, client \in PotentialClients :
          DewhitelistClient(sender, client)
    \/ \E sender \in PotentialClients, requiredSBTs \in RequiredSBTLists,
          tokenAddress \in Tokens, registrationStartTime \in {1},
          registrationEndTime \in {1, 3}, claimStartTime \in {3, 5},
          claimEndTime \in {5, 7} :
            SetDistribution(sender, requiredSBTs, tokenAddress,
                            registrationStartTime, registrationEndTime,
                            claimStartTime, claimEndTime)
    \/ \E sender \in PotentialClients, distributionId \in DistributionIds,
          amount \in 1..InitialBalance :
            Deposit(sender, distributionId, amount)
    \/ \E sender \in PotentialClients, distributionId \in DistributionIds :
            WithdrawRemainingToken(sender, distributionId)
    \/ \E sender \in Users, distributionId \in DistributionIds :
            Register(sender, distributionId)
    \/ \E sender \in Users, distributionId \in DistributionIds :
            Claim(sender, distributionId)

AirdropSpec == AirdropInit /\ [][AirdropNext]_vars

\* setDistribution called while an id is left: a second distribution can
\* follow the first
SetNextDistribution(sender, requiredSBTs, tokenAddress, registrationStartTime, registrationEndTime, claimStartTime, claimEndTime) ==
    /\ GatewayDeployed
    /\ gateway.distributionIndexCounter \in DistributionIds
    /\ \E r0 \in {setDistribution(gateway, sender, requiredSBTs, tokenAddress,
                                   registrationStartTime, registrationEndTime,
                                   claimStartTime, claimEndTime)} :
       \E r \in {IF r0.error = "none"
                  THEN [r0 EXCEPT !.g.created[gateway.distributionIndexCounter] =
                                      [client |-> sender, token |-> tokenAddress]]
                  ELSE r0} :
          Transact("setDistribution", sender, gateway.distributionIndexCounter,
                   <<requiredSBTs, tokenAddress, registrationStartTime,
                     registrationEndTime, claimStartTime, claimEndTime>>, r)
    /\ UNCHANGED <<treeVars, shamir, chain, snap>>

\* deposit while the distribution holds less than MaxDeposited
DepositWithin(sender, distributionId, amount) ==
    /\ GatewayDeployed
    /\ gateway.distributions[distributionId].distributionAmount + amount
          <= MaxDeposited
    /\ Deposit(sender, distributionId, amount)

\* the gateway with several distributions, which can pay out the same token
SharedTokenNext ==
    \/ Mine
    \/ \E newClient \in PotentialClients : WhitelistClient(Owner, newClient)
    \/ \E sender \in PotentialClients, requiredSBTs \in RequiredSBTLists,
          tokenAddress \in Tokens, claimEndTime \in {5, 7} :
            SetNextDistribution(sender, requiredSBTs, tokenAddress, 1, 3, 5,
                                claimEndTime)
    \/ \E sender \in PotentialClients, distributionId \in DistributionIds,
          amount \in 1..InitialBalance :
            DepositWithin(sender, distributionId, amount)
    \/ \E sender \in PotentialClients, distributionId \in DistributionIds :
            WithdrawRemainingToken(sender, distributionId)
    \/ \E distributionId \in DistributionIds : Register("user", distributionId)
    \/ \E distributionId \in DistributionIds : Claim("user", distributionId)

SharedTokenSpec == AirdropInit /\ [][SharedTokenNext]_vars

-----------------------------------------------------------------------------
(* The snap serving RPC requests: a request runs from its start to its     *)
(* confirmation dialog in one step and from the user's answer to its end   *)
(* in another                                                               *)

\* the slots requests are processed in
Slots == {1, 2}

\* the requests websites send
NoParams == [none |-> TRUE]

RpcRequests ==
    {[method |-> "genZkKycProof", params |-> [userAddress |-> u, zkCertStandard |-> standard]] :
        u \in {"0xUser", NoValue}, standard \in RequestedStandards \cup {NoValue}}
    \cup {[method |-> "importZkCert", params |-> [zkCert |-> zkCert, listZkCerts |-> list]] :
        zkCert \in ImportableZkCerts, list \in BOOLEAN}
    \cup {[method |-> m, params |-> [zkCertStandard |-> standard]] :
        m \in {"exportZkCert", "deleteZkCert"}, standard \in RequestedStandards}
    \cup {[method |-> "updateMerkleProof", params |-> [proofs |-> proofs]] :
        proofs \in UNION {[1..n -> MerkleProofUpdates] : n \in 1..MaxProofs}}
    \cup {[method |-> m, params |-> NoParams] :
        m \in {"clearStorage", "getHolderCommitment", "listZkCerts", "getZkCertHash",
               "getZkCertStorageHashes", "setupHoldingKey"}}

NoRequest == [method |-> "none", params |-> NoParams]
SlotIdle == [pc |-> "idle"]
NoneFinished == [slot |-> 0, request |-> NoRequest, dialog |-> FALSE, confirm |-> FALSE, result |-> Pending, before |-> <<>>]

SnapInstalled == snap.phase = "installed"

\* the wallet as installed: without zkCerts, its holder set up or not yet
SnapInit ==
    /\ constructed = FALSE
    /\ merkleTree = NoTree
    /\ prev = NoTree
    /\ op = NoOp
    /\ inserted = <<>>
    /\ proof = NoProof
    /\ computedRoot = Undefined
    /\ shamir = ShamirIdle
    /\ chain = ChainIdle
    /\ gateway = GatewayIdle
    /\ \E holders \in {<<>>, <<[holderCommitment |-> "commitment1"]>>} :
          snap = [phase |-> "installed",
                  persisted |-> [holders |-> holders, zkCerts |-> <<>>],
                  pending |-> [slot \in Slots |-> SlotIdle],
                  finished |-> [slot \in Slots |-> NoneFinished],
                  last |-> NoneFinished]

\* onRpcRequest: the request runs up to its dialog, or to its end when it
\* shows none
Receive(slot, request) ==
    /\ SnapInstalled
    /\ snap.pending[slot] = SlotIdle
    /\ LET state == getState(snap.persisted)
       IN  \E selected \in (IF request.method = "deleteZkCert"
                             THEN selectZkCert(state.zkCerts, request.params.zkCertStandard)
                             ELSE {0}) :
             \E r \in {processRpcRequest(state, request, selected)} :
               snap' = IF r = Pending
                       THEN [snap EXCEPT !.pending[slot] =
                                [pc |-> "dialog", request |-> request,
                                 state |-> state, selected |-> selected]]
                       ELSE LET done == [slot |-> slot, request |-> request,
                                         dialog |-> FALSE, confirm |-> FALSE,
                                         result |-> r, before |-> snap.persisted]
                            IN  [snap EXCEPT !.last = done, !.finished[slot] = done]
    /\ UNCHANGED <<treeVars, shamir, chain, gateway>>

\* the user answers the dialog of the request, which runs to its end
Answer(slot, confirm) ==
    /\ SnapInstalled
    /\ snap.pending[slot] # SlotIdle
    /\ LET p == snap.pending[slot]
       IN  \E selected \in (IF p.request.method \in {"genZkKycProof", "exportZkCert"} /\ confirm
                             THEN selectZkCert(p.state.zkCerts, p.request.params.zkCertStandard)
                             ELSE {p.selected}) :
             \E r \in {AfterConfirm(p.state, p.request, confirm, selected)} :
               LET done == [slot |-> slot, request |-> p.request, dialog |-> TRUE,
                            confirm |-> confirm, result |-> r.result,
                            before |-> snap.persisted]
               IN  snap' = [snap EXCEPT
                              !.persisted = IF r.saved THEN saveState(@, r.state) ELSE @,
                              !.pending[slot] = SlotIdle,
                              !.last = done,
                              !.finished[slot] = done]
    /\ UNCHANGED <<treeVars, shamir, chain, gateway>>

\* the requests processed one after the other
SnapNext ==
    \/ \E request \in RpcRequests : Receive(1, request)
    \/ \E confirm \in BOOLEAN : Answer(1, confirm)

SnapSpec == SnapInit /\ [][SnapNext]_vars

\* import and list requests processed concurrently: a request is received
\* while the other waits for the answer to its dialog
ConcurrentRequests == {r \in RpcRequests : r.method \in {"importZkCert", "listZkCerts"}}

ConcurrentNext ==
    \/ \E slot \in Slots, request \in ConcurrentRequests : Receive(slot, request)
    \/ \E slot \in Slots, confirm \in BOOLEAN : Answer(slot, confirm)

ConcurrentSpec == SnapInit /\ [][ConcurrentNext]_vars

-----------------------------------------------------------------------------
(* Properties of the Merkle tree *)

depth == merkleTree.depth
tree == merkleTree.tree
emptyBranchLevels == merkleTree.emptyBranchLevels

CeilDiv(a, b) == (a + b - 1) \div b

\* 0-based positions of level 0 that hold `leaf`
PositionsOf(self, leaf) ==
    {i \in 0..(Len(self.tree[0]) - 1) : At(self.tree[0], i) = leaf}

\* C1: for every depth d and every leaf sequence of length <= 2^d inserted into
\* a fresh tree of depth d, the proof created for each inserted leaf recomputes
\* the tree's root.
C1_ProofRecomputesRoot ==
    (constructed /\ depth >= 0 /\ Len(inserted) <= Pow2(depth)) =>
        \A i \in 1..Len(inserted) :
            LET r == createProof(merkleTree, inserted[i])
            IN  /\ r.error = "none"
                /\ getMerkleRootFromProof(r.proof) = root(merkleTree)

\* C2: a tree into which no leaf was inserted (empty insertLeaves calls
\* included) has root emptyBranchLevels[depth], where emptyBranchLevels[0] is
\* the empty leaf and emptyBranchLevels[i] hashes emptyBranchLevels[i-1] with
\* itself.
C2_EmptyTreeRoot ==
    (constructed /\ inserted = <<>>) =>
        /\ root(merkleTree) = At(emptyBranchLevels, depth)
        /\ At(emptyBranchLevels, 0) = emptyLeaf
        /\ \A i \in 1..depth :
              At(emptyBranchLevels, i) =
                  calculateNodeHash(At(emptyBranchLevels, i - 1),
                                    At(emptyBranchLevels, i - 1))

C2_Witness ==
    /\ constructed /\ depth = MaxDepth /\ inserted = <<>>
    /\ op.name = "insertLeaves" /\ op.leaves = <<>>
    /\ root(merkleTree) # Undefined

\* C3: createProof for a leaf that is at no position of level 0 fails with the
\* leaf-not-found error, returns no proof and leaves the tree unchanged.
C3_AbsentLeafFails ==
    (constructed /\ depth >= 0 /\ op.name = "createProof"
        /\ PositionsOf(prev, op.leaf) = {}) =>
        /\ op.error = "LeafNotFound"
        /\ merkleTree = prev

C3_Witness ==
    /\ constructed /\ depth >= 1 /\ Len(inserted) >= 2
    /\ op.name = "createProof" /\ op.error = "LeafNotFound"
    /\ PositionsOf(prev, op.leaf) = {}

\* C4: when a leaf value is at several positions of level 0, the proof that
\* createProof returns carries the smallest of those positions as leafIndex.
C4_FirstOccurrence ==
    (constructed /\ depth >= 0 /\ op.name = "createProof" /\ op.error = "none") =>
        /\ proof.leaf = op.leaf
        /\ proof.leafIndex \in PositionsOf(merkleTree, op.leaf)
        /\ \A i \in PositionsOf(merkleTree, op.leaf) : proof.leafIndex <= i

C4_Witness ==
    /\ constructed /\ depth >= 1
    /\ op.name = "createProof" /\ op.error = "none"
    /\ Cardinality(PositionsOf(merkleTree, op.leaf)) >= 2
    /\ proof.leafIndex >= 1

\* C5 (as claimed): in every reachable state, from construction on, level l
\* holds at most ceil(leafCount / 2^l) entries, for every l in 0..depth.
C5_LevelLengthBound ==
    (constructed /\ depth >= 0) =>
        \A l \in 0..depth : Len(tree[l]) <= CeilDiv(Len(inserted), Pow2(l))

\* C5 (amended): level l holds at most ceil(leafCount / 2^l) entries, plus the
\* one entry the constructor puts into the root level, which is still there
\* while no leaf was inserted and, in a tree of depth 0, for good.
C5_LevelLengthBoundAmended ==
    (constructed /\ depth >= 0) =>
        \A l \in 0..depth :
            Len(tree[l]) <=
                CeilDiv(Len(inserted), Pow2(l))
                + (IF l = depth /\ (Len(inserted) = 0 \/ depth = 0) THEN 1 ELSE 0)

C5_Witness ==
    /\ constructed /\ depth = MaxDepth /\ Len(inserted) = 3
    /\ Len(tree[0]) = 3 /\ Len(tree[1]) = 2 /\ Len(tree[depth]) >= 1

\* C6: in a tree of depth d >= 1, tree[d][0] exists and is the hash of the
\* entries 0 and 1 of level d-1, an absent one replaced by
\* emptyBranchLevels[d-1].
C6_RootIsHashOfChildren ==
    (constructed /\ depth >= 1) =>
        /\ At(tree[depth], 0) # Undefined
        /\ At(tree[depth], 0) =
              calculateNodeHash(
                  Nullish(At(tree[depth - 1], 0), At(emptyBranchLevels, depth - 1)),
                  Nullish(At(tree[depth - 1], 1), At(emptyBranchLevels, depth - 1)))

C6_Witness ==
    /\ constructed /\ depth >= 1
    /\ Len(tree[depth - 1]) = 1
    /\ op.name = "insertLeaves" /\ op.leaves # <<>>

\* C7: insertLeaves appends: the old level 0 is a prefix of the new one and the
\* given leaves follow it in order; no other call changes level 0.
C7_AppendOnly ==
    (constructed /\ depth >= 0) =>
        /\ op.name = "insertLeaves" => tree[0] = prev.tree[0] \o op.leaves
        /\ op.name # "insertLeaves" => tree[0] = prev.tree[0]

C7_Witness ==
    /\ constructed /\ depth >= 1
    /\ op.name = "insertLeaves" /\ Len(op.leaves) = 2
    /\ Len(prev.tree[0]) >= 1
    /\ tree[0] # prev.tree[0]

\* C8: insertLeaves with an empty sequence changes nothing: every level, the
\* root and emptyBranchLevels are as before the call.
C8_EmptyInsertIsNoOp ==
    (constructed /\ op.name = "insertLeaves" /\ op.leaves = <<>>) =>
        /\ op.error = "none"
        /\ merkleTree = prev
        /\ root(merkleTree) = root(prev)

C8_Witness ==
    /\ constructed /\ depth >= 1
    /\ op.name = "insertLeaves" /\ op.leaves = <<>>
    /\ inserted # <<>>

\* C9 (as claimed): constructing fails if and only if depth < 0.
C9_FailsIffNegative ==
    constructed <=> depth >= 0

\* C9 (amended): constructing fails if and only if depth < -1, where
\* Array(depth + 1) throws; depth -1 yields an object without level 0 whose
\* root is undefined, and every depth >= 0 yields a tree with levels 0..depth.
C9_FailsIffBelowMinusOne ==
    /\ constructed <=> depth >= 0 - 1
    /\ (constructed /\ depth >= 0) => DOMAIN tree = 0..depth
    /\ (constructed /\ depth = 0 - 1) =>
          (0 \notin DOMAIN tree /\ root(merkleTree) = Undefined)
    /\ ~constructed => op.error = "RangeError"

C9_Witness ==
    /\ constructed /\ depth = 0 - 1
    /\ op.name = "insertLeaves" /\ op.error = "TypeError"

-----------------------------------------------------------------------------
(* Properties of the Shamir reconstruction *)

\* the indices of the shares last given to reconstructShamirSecret
UsedIndices == {shamir.shares[i][1] : i \in 1..Len(shamir.shares)}

\* C10: with threshold-many shares of one sharing polynomial, at distinct
\* non-zero indices, reconstructShamirSecret returns the secret (the
\* polynomial's constant term), whichever of the shares are used; so any two
\* such subsets give the same value.
C10_AnyThresholdSharesReconstruct ==
    (shamir.phase = "reconstructed" /\ Len(shamir.shares) = shamir.threshold) =>
        /\ shamir.error = "none"
        /\ shamir.secret = shamir.poly[1]

C10_Witness ==
    /\ shamir.phase = "reconstructed"
    /\ shamir.threshold = 3
    /\ UsedIndices = {3, 4, 5}
    /\ shamir.poly[1] # 0 /\ shamir.poly[2] # 0 /\ shamir.poly[3] # 0
    /\ shamir.secret = shamir.poly[1]

\* C11 as stated: in a (3,n) scheme, reconstruction from 2 valid shares never
\* returns the secret, whatever the secret and the polynomial.
C11_TwoSharesNeverReconstruct ==
    (shamir.phase = "tooFew" /\ shamir.threshold = 3) =>
        shamir.secret # shamir.poly[1]

\* C11 amended: in a (3,n) scheme, reconstruction from 2 valid shares with
\* indices x1, x2 raises no error and returns secret - a2 * x1 * x2 in the
\* field, a2 being the polynomial's quadratic coefficient; that is the secret
\* exactly when a2 = 0.
C11_TwoSharesMissByQuadraticTerm ==
    (shamir.phase = "tooFew" /\ shamir.threshold = 3) =>
        LET F  == shamir.field
            x1 == shamir.shares[1][1]
            x2 == shamir.shares[2][1]
        IN  /\ shamir.error = "none"
            /\ shamir.secret
                 = (shamir.poly[1] + (F - shamir.poly[3]) * x1 * x2) % F
            /\ (shamir.secret = shamir.poly[1]) <=> (shamir.poly[3] = 0)

C11_Witness ==
    /\ shamir.phase = "tooFew"
    /\ shamir.threshold = 3
    /\ UsedIndices = {2, 5}
    /\ shamir.poly[3] # 0
    /\ shamir.error = "none"
    /\ shamir.secret # shamir.poly[1]

\* C12: when exactly one of the threshold-many shares has its value replaced
\* by another field element, reconstructShamirSecret raises no error and
\* returns a field element different from the secret.
C12_ForgedShareGivesOtherValue ==
    shamir.phase = "forged" =>
        /\ shamir.error = "none"
        /\ shamir.secret \in 0..(shamir.field - 1)
        /\ shamir.secret # shamir.poly[1]

C12_Witness ==
    /\ shamir.phase = "forged"
    /\ shamir.threshold = 3
    /\ UsedIndices = {1, 2, 3}
    /\ shamir.shares[2][2] # ShareOf(shamir.field, shamir.poly, 2)[2]
    /\ shamir.shares[1] = ShareOf(shamir.field, shamir.poly, 1)
    /\ shamir.shares[3] = ShareOf(shamir.field, shamir.poly, 3)
    /\ shamir.error = "none"
    /\ shamir.secret # shamir.poly[1]

\* C13: reconstructShamirSecret fails with MalformedShares when two of the
\* shares have the same index, and on no other input: every other call
\* returns a field element.
C13_MalformedIffDuplicateIndex ==
    shamir.phase \in {"reconstructed", "tooFew", "forged", "duplicate"} =>
        /\ shamir.error \in {"none", "MalformedShares"}
        /\ (shamir.error = "MalformedShares")
              <=> (Cardinality(UsedIndices) < Len(shamir.shares))
        /\ shamir.error = "none" => shamir.secret \in 0..(shamir.field - 1)

C13_Witness ==
    /\ shamir.phase = "duplicate"
    /\ shamir.threshold = 3
    /\ shamir.shares[1] = shamir.shares[3]
    /\ shamir.shares[2][1] # shamir.shares[1][1]
    /\ shamir.error = "MalformedShares"

-----------------------------------------------------------------------------
(* Properties of the proof verification *)

\* the last call was a proof submission
LastVerify == chain.phase = "deployed" /\ chain.call.name = "verifyProof"

\* the index of a root in the history of roots set: the position of its
\* latest setMerkleRoot call, 0 for a root that was never set
RECURSIVE HistoryIndex(_, _)
HistoryIndex(rootsSet, r) ==
    IF rootsSet = <<>>
    THEN 0
    ELSE IF rootsSet[Len(rootsSet)] = r
    THEN Len(rootsSet)
    ELSE HistoryIndex(SubSeq(rootsSet, 1, Len(rootsSet) - 1), r)

\* the checks of a submission other than the root check pass
OtherChecksPass ==
    /\ TimeCheck(chain.timestamp, chain.call.outputs)
    /\ ValidityCheck(chain.call.outputs)
    /\ AuthorizationCheck(chain.call.sender, chain.call.outputs)
    /\ InstitutionKeyCheck(chain.institutions, chain.call.outputs)

\* C14: a submission is accepted if and only if all checks pass: the public
\* root was set in the registry and its index is not below the valid index,
\* the time is within tolerance, the validity flag is 1, the sender is the
\* authorized address and every institution key matches.
C14_AcceptedIffAllChecksPass ==
    LastVerify =>
        ((chain.call.error = "none")
          <=> (/\ HistoryIndex(chain.call.rootsSetBefore, chain.call.outputs.root)
                    >= merkleRootValidIndex(chain.call.registryBefore)
               /\ OtherChecksPass))

\* C15: the time check passes exactly when the block timestamp is at most 30
\* minutes from the proof's time, either way: a submission further off is
\* rejected, with TimeOutOfBounds when the root check passed and the validity
\* flag is 1, and one within 30 minutes is never rejected with
\* TimeOutOfBounds.
C15_TimeCheckWithinTolerance ==
    LastVerify =>
        LET off == AbsDiff(chain.timestamp, chain.call.outputs.currentTime)
        IN  /\ off > 30 * 60 => chain.call.error # "none"
            /\ (off > 30 * 60 /\ RootCheck(chain.call.registryBefore, chain.call.outputs)
                  /\ ValidityCheck(chain.call.outputs))
                  => chain.call.error = "TimeOutOfBounds"
            /\ off <= 30 * 60 => chain.call.error # "TimeOutOfBounds"
            /\ (off <= 30 * 60 /\ chain.call.error = "none") => OtherChecksPass

C15_Witness ==
    /\ LastVerify
    /\ chain.timestamp = chain.call.outputs.currentTime + 30 * 60 + 200
    /\ chain.call.outputs.isValid = 1
    /\ chain.call.sender = chain.call.outputs.userAddress
    /\ chain.call.error = "TimeOutOfBounds"

\* C16: once a newer root has been set, a proof over an older root is still
\* accepted while that root's index is not below the valid index asked for,
\* and rejected as stale once the valid index asked for is above it.
C16_OlderRootUntilValidIndexRaised ==
    LET i == HistoryIndex(chain.call.rootsSetBefore, chain.call.outputs.root)
    IN  (/\ LastVerify
         /\ 1 <= i /\ i < Len(chain.call.rootsSetBefore)
         /\ OtherChecksPass)
          => IF chain.validIndexAsked > i
             THEN chain.call.error = "StaleOrUnknownRoot"
             ELSE chain.call.error = "none"

\* C17: a submission whose public root was never set in the registry is
\* rejected by the root check, whatever its other outputs.
C17_NeverSetRootRejected ==
    (LastVerify
     /\ HistoryIndex(chain.call.rootsSetBefore, chain.call.outputs.root) = 0)
        => chain.call.error = "StaleOrUnknownRoot"

\* the last submission repeats, by the same sender, the one accepted before
RepeatsAccepted ==
    /\ LastVerify
    /\ chain.call.acceptedBefore
          = [phase |-> "accepted", sender |-> chain.call.sender,
             outputs |-> chain.call.outputs]

KeyMatches(i) ==
    /\ chain.institutions[i][1] = At(chain.call.outputs.institutionPubKeys, 2 * i)
    /\ chain.institutions[i][2] = At(chain.call.outputs.institutionPubKeys, 2 * i + 1)

\* C31: a submission is accepted only if for every institution both
\* coordinates of its registered key are in the output slots 2i and 2i + 1
\* from the start index; when the key of an institution was changed after a
\* submission was accepted, the same submission is rejected, with
\* InstitutionKeyMismatch while the time and root checks still pass.
C31_InstitutionKeysMustMatch ==
    LastVerify =>
        /\ chain.call.error = "none" => \A i \in Institutions : KeyMatches(i)
        /\ chain.call.error = "InstitutionKeyMismatch" => \E i \in Institutions : ~KeyMatches(i)
        /\ (RepeatsAccepted /\ \E i \in Institutions : ~KeyMatches(i)) =>
              /\ chain.call.error # "none"
              /\ (/\ TimeCheck(chain.timestamp, chain.call.outputs)
                   /\ RootCheck(chain.registry, chain.call.outputs))
                    => chain.call.error = "InstitutionKeyMismatch"

C31_Witness ==
    /\ RepeatsAccepted
    /\ KeyMatches(0)
    /\ chain.institutions[1] = <<ProofPubKey(1)[1], ProofPubKey(1)[2] + 1>>
    /\ chain.call.error = "InstitutionKeyMismatch"

\* the root of the last submission was set in the registry and is not below
\* the valid index
RootKnown ==
    HistoryIndex(chain.call.rootsSetBefore, chain.call.outputs.root)
        >= merkleRootValidIndex(chain.call.registryBefore)

\* C29: the five checks are applied in the order root, time, validity flag,
\* authorization, institution keys, and the error of a rejected submission
\* is that of the first check in this order that fails: StaleOrUnknownRoot
\* for an unknown root whatever the time, TimeOutOfBounds for a known root
\* and a time out of bounds whatever the validity flag.
C29_FirstFailingCheckInSpecOrder ==
    LastVerify =>
        chain.call.error =
            IF ~RootKnown THEN "StaleOrUnknownRoot"
            ELSE IF ~TimeCheck(chain.timestamp, chain.call.outputs) THEN "TimeOutOfBounds"
            ELSE IF ~ValidityCheck(chain.call.outputs) THEN "InvalidAttestation"
            ELSE IF ~AuthorizationCheck(chain.call.sender, chain.call.outputs)
                 THEN "UnauthorizedSubmitter"
            ELSE IF ~InstitutionKeyCheck(chain.institutions, chain.call.outputs)
                 THEN "InstitutionKeyMismatch"
            ELSE "none"

\* C30: a submission with validity flag 0 and a root set in the registry is
\* rejected with InvalidAttestation, whether or not its time is within the
\* tolerance of the block timestamp.
C30_InvalidOutputRejectedFirst ==
    (LastVerify /\ chain.call.outputs.isValid = 0 /\ RootKnown) =>
        chain.call.error = "InvalidAttestation"

C30_Witness ==
    /\ LastVerify
    /\ chain.call.outputs.isValid = 0
    /\ chain.call.outputs.root = chain.registry.merkleRoot
    /\ RootKnown
    /\ ~TimeCheck(chain.timestamp, chain.call.outputs)
    /\ chain.call.error = "InvalidAttestation"

-----------------------------------------------------------------------------
(* Properties of the AirdropGateway *)

\* the last transaction was a call of the named function
LastCall(name) == GatewayDeployed /\ gateway.call.name = name

\* C19: after a successful setDistribution the stored distribution has the
\* caller as clientAddress, the given token as tokenAddress, the four times
\* as given and all four amounts and counts 0.
C19_SetDistributionStoresArguments ==
    (LastCall("setDistribution") /\ gateway.call.error = "none") =>
        LET d == gateway.distributions[gateway.call.distributionId]
            args == gateway.call.args
        IN  /\ d.clientAddress = gateway.call.sender
            /\ d.tokenAddress = args[2]
            /\ d.registrationStartTime = args[3]
            /\ d.registrationEndTime = args[4]
            /\ d.claimStartTime = args[5]
            /\ d.claimEndTime = args[6]
            /\ d.distributionAmount = 0
            /\ d.registeredUserCount = 0
            /\ d.tokenAmountPerUser = 0
            /\ d.amountClaimed = 0

\* C20: a user claims at most once per distribution: a claim by a user who
\* has claimed from the distribution before is rejected with 'user has
\* already claimed' and transfers no tokens.
C20_ClaimAtMostOnce ==
    (LastCall("claim") /\ gateway.call.before.claimed) =>
        /\ gateway.call.error = "user has already claimed"
        /\ gateway.call.transferred = 0

\* C21: a register call by a user already registered for the distribution is
\* rejected with 'user has already registered' and leaves registeredUserCount
\* as it was; so registeredUserCount is the number of distinct registered
\* users of every distribution.
C21_RegisterAtMostOnce ==
    /\ (LastCall("register") /\ gateway.call.before.registered) =>
          /\ gateway.call.error = "user has already registered"
          /\ gateway.distributions[gateway.call.distributionId].registeredUserCount
               = gateway.call.before.distribution.registeredUserCount
    /\ GatewayDeployed =>
          \A id \in DistributionIds :
              gateway.distributions[id].registeredUserCount
                = Cardinality(gateway.registeredUsers[id])

\* C22: a successful claim adds tokenAmountPerUser to the distribution's
\* amountClaimed, tokenAmountPerUser being distributionAmount divided by
\* registeredUserCount (integer division) as set by the first claim and not
\* changed by later ones.
C22_ClaimAddsToAmountClaimed ==
    (LastCall("claim") /\ gateway.call.error = "none") =>
        LET d == gateway.distributions[gateway.call.distributionId]
            b == gateway.call.before.distribution
        IN  /\ d.amountClaimed = b.amountClaimed + d.tokenAmountPerUser
            /\ d.tokenAmountPerUser =
                 IF Cardinality(gateway.claimedUsers[gateway.call.distributionId]) = 1
                    /\ ~gateway.call.before.claimed
                 THEN b.distributionAmount \div b.registeredUserCount
                 ELSE b.tokenAmountPerUser

\* C23: the client that created a distribution can deposit into it before
\* claimStartTime, and distributionAmount then grows by the amount; its
\* deposits at or after claimStartTime are rejected with 'claim has already
\* started' and leave distributionAmount as it was.
C23_DepositOnlyBeforeClaimStart ==
    LET id == gateway.call.distributionId
        d == gateway.distributions[id]
        b == gateway.call.before.distribution
        amount == gateway.call.args[1]
    IN  (/\ LastCall("deposit")
         /\ gateway.created[id] # NotCreated
         /\ gateway.call.sender = gateway.created[id].client
         /\ gateway.call.sender \in gateway.clients)
          => IF gateway.timestamp < b.claimStartTime
             THEN /\ gateway.call.error = "none"
                       => d.distributionAmount = b.distributionAmount + amount
                  /\ gateway.call.error # "none"
                       => gateway.balances[gateway.created[id].token][gateway.call.sender]
                            < amount
             ELSE /\ gateway.call.error = "claim has already started"
                  /\ d.distributionAmount = b.distributionAmount

\* the last transaction was a call of the named function for a distribution
\* by the whitelisted client whose setDistribution call created it
LastCallByCreator(name) ==
    /\ LastCall(name)
    /\ gateway.created[gateway.call.distributionId] # NotCreated
    /\ gateway.call.sender = gateway.created[gateway.call.distributionId].client
    /\ gateway.call.sender \in gateway.clients

\* C34: withdrawRemainingToken by the client that created the distribution
\* is rejected with 'claim has not ended yet' until claimEndTime has passed,
\* and after it transfers exactly distributionAmount - amountClaimed to the
\* client.
C34_WithdrawOnlyAfterClaimEnd ==
    LET id == gateway.call.distributionId
        b == gateway.call.before.distribution
    IN  LastCallByCreator("withdrawRemainingToken") =>
            IF ~(b.claimEndTime < gateway.timestamp)
            THEN gateway.call.error = "claim has not ended yet"
            ELSE /\ gateway.call.error = "none"
                 /\ gateway.call.transferred = b.distributionAmount - b.amountClaimed

-----------------------------------------------------------------------------
(* Properties of Merkle proofs *)

\* a fresh tree of the given depth after the one call insertLeaves(leaves)
InOneBatch(d, leaves) == insertLeaves(MerkleTreeNew(d).self, leaves).self

\* C35: a tree that got its leaves in several insertLeaves calls has the same
\* levels and the same root as a fresh tree of its depth that gets all of
\* them, in the same order, in one call.
C35_BatchingChangesNothing ==
    constructed =>
        /\ merkleTree.tree = InOneBatch(depth, inserted).tree
        /\ root(merkleTree) = root(InOneBatch(depth, inserted))
        /\ (op.name = "insertLeaves" /\ op.error = "none") =>
              LET A == SubSeq(inserted, 1, Len(inserted) - Len(op.leaves))
              IN  /\ prev.tree = InOneBatch(depth, A).tree
                  /\ insertLeaves(InOneBatch(depth, A), op.leaves).self.tree
                       = InOneBatch(depth, A \o op.leaves).tree

C35_Witness ==
    /\ constructed /\ depth = 2
    /\ op.name = "insertLeaves" /\ Len(op.leaves) = 2
    /\ Len(prev.tree[0]) = 1
    /\ inserted = prev.tree[0] \o op.leaves
    /\ root(merkleTree) = root(InOneBatch(depth, inserted))
    /\ root(merkleTree) # root(prev)

\* n with its lowest bit flipped: the position of the sibling of position n
Xor1(n) == IF n % 2 = 0 THEN n + 1 ELSE n - 1

\* the proof made last is that of the third of three distinct leaves of a
\* tree of depth 2
ThirdOfThree ==
    /\ constructed /\ depth = 2 /\ Len(inserted) = 3
    /\ Cardinality({inserted[i] : i \in 1..3}) = 3
    /\ op.name = "createProof" /\ op.error = "none" /\ op.leaf = inserted[3]

\* C26: a proof that createProof returns on a tree with at most 2^depth
\* leaves has depth path elements, the one of level l being the entry of
\* level l at position (leafIndex >> l) XOR 1 when it is stored and
\* emptyBranchLevels[l] when not; in a tree of depth 2 with leaves L0, L1, L2
\* the proof of L2 has leafIndex 2 and path emptyBranchLevels[0], H(L0, L1).
C26_PathElementsAreSiblings ==
    /\ (constructed /\ depth >= 0 /\ Len(inserted) <= Pow2(depth)
          /\ op.name = "createProof" /\ op.error = "none") =>
          /\ Len(proof.pathElements) = depth
          /\ \A l \in 0..(depth - 1) :
                LET pos == Xor1(proof.leafIndex \div Pow2(l))
                IN  At(proof.pathElements, l) =
                       IF pos < Len(tree[l]) THEN At(tree[l], pos)
                                             ELSE At(emptyBranchLevels, l)
    /\ ThirdOfThree =>
          /\ proof.leafIndex = 2
          /\ At(proof.pathElements, 0) = At(emptyBranchLevels, 0)
          /\ At(proof.pathElements, 1) = calculateNodeHash(inserted[1], inserted[2])

C26_Witness ==
    /\ ThirdOfThree
    /\ proof.leaf = inserted[3]
    /\ Len(proof.pathElements) = 2

\* C27: at every level every odd position that is stored, or that is above a
\* stored leaf, has a stored left neighbour, and no proof that createProof
\* returns has an undefined path element.
C27_OddPositionHasLeftNeighbour ==
    constructed =>
        /\ \A l \in DOMAIN tree \cap (0..depth) :
              \A pos \in 0..Len(inserted) :
                  (/\ pos % 2 = 1
                   /\ \/ pos < Len(tree[l])
                      \/ \E i \in 0..(Len(tree[0]) - 1) : i \div Pow2(l) = pos)
                    => (pos - 1 < Len(tree[l]) /\ At(tree[l], pos - 1) # Undefined)
        /\ (op.name = "createProof" /\ op.error = "none") =>
              \A l \in 0..(Len(proof.pathElements) - 1) :
                  At(proof.pathElements, l) # Undefined

C27_Witness ==
    /\ constructed /\ depth = 2 /\ Len(inserted) = 4
    /\ op.name = "createProof" /\ op.error = "none"
    /\ proof.leafIndex = 3
    /\ At(proof.pathElements, 0) = At(tree[0], 2)
    /\ At(proof.pathElements, 1) = At(tree[1], 0)

\* the fold of the first n path elements onto the leaf
RECURSIVE FoldPath(_, _)
FoldPath(p, n) ==
    IF n = 0
    THEN p.leaf
    ELSE LET current == FoldPath(p, n - 1)
             bit == (p.leafIndex \div Pow2(n - 1)) % 2
         IN  IF bit = 1
             THEN calculateNodeHash(At(p.pathElements, n - 1), current)
             ELSE calculateNodeHash(current, At(p.pathElements, n - 1))

\* C28: getMerkleRootFromProof returns the fold of the path onto the leaf,
\* step i putting pathElements[i] on the left when bit i of leafIndex is 1
\* and on the right when it is 0; it returns the leaf for an empty path; it
\* changes neither the proof nor the tree, and a second call on the proof
\* returns the same value.
C28_FoldsPathByIndexBits ==
    [][op'.name = "getMerkleRootFromProof" =>
          /\ computedRoot' = FoldPath(proof, Len(proof.pathElements))
          /\ proof.pathElements = <<>> => computedRoot' = proof.leaf
          /\ proof' = proof
          /\ merkleTree' = merkleTree
          /\ getMerkleRootFromProof(proof') = computedRoot']_vars

C28_Witness ==
    /\ constructed /\ depth = 2
    /\ op.name = "getMerkleRootFromProof"
    /\ proof.leafIndex = 2
    /\ computedRoot = root(merkleTree)

\* the values tried as the path element of a level: the entries of the
\* level, its empty branch hash and the empty leaf
LevelValues(self, level) ==
    {self.tree[level][k] : k \in 1..Len(self.tree[level])}
    \cup {At(self.emptyBranchLevels, level), emptyLeaf}

\* the paths from `level` up to the root level
RECURSIVE CandidatePaths(_, _)
CandidatePaths(self, level) ==
    IF level >= self.depth
    THEN {<<>>}
    ELSE {<<v>> \o rest : v \in LevelValues(self, level),
                          rest \in CandidatePaths(self, level + 1)}

\* the proofs with depth path elements and a leafIndex below 2^depth
CandidateProofs(self) ==
    [leaf : LeafValues,
     pathElements : CandidatePaths(self, 0),
     leafIndex : 0..(Pow2(self.depth) - 1)]

\* C38: in a tree with at most 2^depth leaves, a proof with depth path
\* elements and leafIndex < 2^depth that recomputes the tree's root has as its
\* leaf the entry of level 0 at leafIndex, or the empty leaf when level 0 has
\* no entry there.
C38_AcceptedProofBindsLeaf ==
    (constructed /\ depth >= 0 /\ Len(inserted) <= Pow2(depth)) =>
        \A p \in CandidateProofs(merkleTree) :
            getMerkleRootFromProof(p) = root(merkleTree) =>
                p.leaf = IF p.leafIndex < Len(tree[0])
                         THEN At(tree[0], p.leafIndex)
                         ELSE emptyLeaf

C38_Witness ==
    /\ constructed /\ depth = 2 /\ Len(inserted) = 3
    /\ op.name = "getMerkleRootFromProof" /\ computedRoot = root(merkleTree)
    /\ \E p \in CandidateProofs(merkleTree) :
          /\ p.leafIndex = 3 /\ p.leaf = emptyLeaf
          /\ getMerkleRootFromProof(p) = root(merkleTree)
    /\ \E p \in CandidateProofs(merkleTree) :
          /\ p.leafIndex = proof.leafIndex /\ p.pathElements = proof.pathElements
          /\ p.leaf # proof.leaf
          /\ getMerkleRootFromProof(p) # root(merkleTree)

\* the first n of the inserted leaves
FirstLeaves(n) == SubSeq(inserted, 1, n)

\* C39: insertLeaves accepts leaves beyond the capacity; once more than
\* 2^depth leaves are inserted the root is that of a tree of the same depth
\* with the first 2^depth leaves alone, and further insertions leave the root
\* as it is.
C39_OverfullTreeKeepsRoot ==
    (constructed /\ depth >= 0) =>
        /\ op.name = "insertLeaves" => op.error = "none"
        /\ Len(inserted) > Pow2(depth) =>
              root(merkleTree) = root(InOneBatch(depth, FirstLeaves(Pow2(depth))))
        /\ (op.name = "insertLeaves"
              /\ Len(inserted) - Len(op.leaves) > Pow2(depth)) =>
              root(merkleTree) = root(prev)

C39_Witness ==
    /\ constructed /\ depth = 1 /\ Len(inserted) = 4
    /\ op.name = "insertLeaves" /\ Len(op.leaves) = 1 /\ op.error = "none"
    /\ Len(tree[0]) = 4 /\ Len(tree[1]) = 2
    /\ At(tree[0], 3) # emptyLeaf
    /\ root(merkleTree) = root(prev)

\* C40: the leafIndex createProof gives for a leaf stays the same through
\* later insertLeaves calls, and a proof made earlier recomputes the current
\* root exactly when its path elements are the current siblings on the
\* leaf's path.
C40_EarlierProofAndCurrentSiblings ==
    (constructed /\ depth >= 0 /\ proof # NoProof) =>
        /\ createProof(merkleTree, proof.leaf).proof.leafIndex = proof.leafIndex
        /\ (getMerkleRootFromProof(proof) = root(merkleTree))
              <=> (proof.pathElements = ProofPath(merkleTree, 0, proof.leafIndex))

-----------------------------------------------------------------------------
(* Properties of the snap's RPC requests *)

\* the request that finished last showed its dialog and the user declined
LastDeclined(method) ==
    /\ SnapInstalled
    /\ snap.last.request.method = method
    /\ snap.last.dialog
    /\ ~snap.last.confirm

PairwiseDistinctLeafHashes(zkCerts) ==
    \A i, j \in 1..Len(zkCerts) : zkCerts[i].leafHash = zkCerts[j].leafHash => i = j

\* C24: a request of any of the nine methods with a confirmation dialog whose
\* dialog the user declines fails with RejectedConfirm, returns nothing and
\* leaves the persisted holders and zkCerts as they were; only these nine
\* methods show a dialog.
C24_DeclineChangesNothing ==
    SnapInstalled =>
        /\ snap.last.dialog => snap.last.request.method \in DialogMethods
        /\ \A method \in DialogMethods :
              LastDeclined(method) =>
                  /\ snap.last.result = Throw("RejectedConfirm")
                  /\ snap.persisted = snap.last.before

C24_Witness ==
    /\ LastDeclined("deleteZkCert")
    /\ Len(snap.persisted.zkCerts) = 2
    /\ snap.last.result.kind = "throw"

\* the import request that finished last was for a leafHash stored already
LastImportOfStored ==
    /\ SnapInstalled
    /\ snap.last.request.method = "importZkCert"
    /\ FindZkCert(snap.last.before.zkCerts, snap.last.request.params.zkCert.leafHash) # 0

\* C25 as stated: the stored zkCerts have pairwise distinct leafHashes, and
\* every import of a zkCert whose leafHash is stored returns
\* ZkCertAlreadyImported without a dialog and without a change of the
\* persisted state.
C25_DuplicateImportAlwaysAnswered ==
    SnapInstalled =>
        /\ PairwiseDistinctLeafHashes(snap.persisted.zkCerts)
        /\ LastImportOfStored =>
              /\ snap.last.result = Returned("ZkCertAlreadyImported", <<>>)
              /\ ~snap.last.dialog
              /\ snap.persisted = snap.last.before

\* C25: the stored zkCerts have pairwise distinct leafHashes; an import of a
\* zkCert whose leafHash is stored shows no dialog and leaves the persisted
\* state unchanged; it returns ZkCertAlreadyImported when the zkCert's
\* holderCommitment is that of a stored holder, and fails for the missing
\* holder otherwise.
C25_DuplicateImportRejected ==
    SnapInstalled =>
        /\ PairwiseDistinctLeafHashes(snap.persisted.zkCerts)
        /\ LastImportOfStored =>
              /\ ~snap.last.dialog
              /\ snap.persisted = snap.last.before
              /\ snap.last.result =
                    IF FindHolder(snap.last.before.holders,
                                  snap.last.request.params.zkCert.holderCommitment) # 0
                    THEN Returned("ZkCertAlreadyImported", <<>>)
                    ELSE Throw("Could not find Holder for commitment")

\* the request that finished last was an import for a holder commitment of no
\* stored holder
LastImportWithoutHolder ==
    /\ SnapInstalled
    /\ snap.last.request.method = "importZkCert"
    /\ FindHolder(snap.last.before.holders,
                  snap.last.request.params.zkCert.holderCommitment) = 0

\* C32: an import of a zkCert whose holderCommitment is that of no stored
\* holder fails before any dialog and leaves the persisted state unchanged;
\* the stored zkCerts grow only by the zkCert of an import whose holder is
\* stored, whose leafHash was not stored and which the user confirmed.
C32_ImportNeedsHolder ==
    SnapInstalled =>
        /\ LastImportWithoutHolder =>
              /\ snap.last.result = Throw("Could not find Holder for commitment")
              /\ ~snap.last.dialog
              /\ snap.persisted = snap.last.before
        /\ (snap.last.slot # 0
             /\ \E i \in 1..Len(snap.persisted.zkCerts) :
                   \A j \in 1..Len(snap.last.before.zkCerts) :
                       snap.persisted.zkCerts[i].leafHash
                         # snap.last.before.zkCerts[j].leafHash) =>
              /\ snap.last.request.method = "importZkCert"
              /\ ~LastImportWithoutHolder
              /\ ~LastImportOfStored
              /\ snap.last.dialog /\ snap.last.confirm
              /\ snap.persisted.zkCerts
                    = Append(snap.last.before.zkCerts, snap.last.request.params.zkCert)

C32_Witness ==
    /\ LastImportWithoutHolder
    /\ snap.last.before.holders # <<>>
    /\ Len(snap.persisted.zkCerts) = 1
    /\ FindZkCert(snap.persisted.zkCerts, snap.last.request.params.zkCert.leafHash) = 0
    /\ snap.last.result.kind = "throw"

\* the request that finished last was a confirmed update of merkle proofs
LastUpdate ==
    /\ SnapInstalled
    /\ snap.last.request.method = "updateMerkleProof"
    /\ snap.last.dialog /\ snap.last.confirm

\* the positions of the proofs of the last request that have the given leaf
ProofsFor(leafHash) ==
    {k \in 1..Len(snap.last.request.params.proofs) :
        snap.last.request.params.proofs[k].leaf = leafHash}

\* C33: a confirmed update of merkle proofs one of whose proofs has the leaf
\* of no stored zkCert fails and leaves the persisted state as it was; when
\* every proof has the leaf of a stored zkCert, each zkCert with proofs for
\* its leafHash gets the last of them as its merkleProof, and every other
\* zkCert and every other field stays as it was.
C33_UpdateIsAllOrNothing ==
    LastUpdate =>
        LET proofs == snap.last.request.params.proofs
            before == snap.last.before
        IN  IF \E k \in 1..Len(proofs) : FindZkCert(before.zkCerts, proofs[k].leaf) = 0
            THEN /\ snap.last.result.kind = "throw"
                 /\ snap.persisted = before
            ELSE /\ snap.last.result = Returned("MerkleProofsUpdated", <<>>)
                 /\ snap.persisted.holders = before.holders
                 /\ Len(snap.persisted.zkCerts) = Len(before.zkCerts)
                 /\ \A i \in 1..Len(before.zkCerts) :
                       LET for == ProofsFor(before.zkCerts[i].leafHash)
                       IN  snap.persisted.zkCerts[i] =
                             IF for = {}
                             THEN before.zkCerts[i]
                             ELSE [before.zkCerts[i] EXCEPT !.merkleProof =
                                      proofs[CHOOSE k \in for : \A j \in for : j <= k]]

C33_Witness ==
    /\ LastUpdate
    /\ Len(snap.last.request.params.proofs) = 2
    /\ FindZkCert(snap.last.before.zkCerts, snap.last.request.params.proofs[1].leaf) # 0
    /\ FindZkCert(snap.last.before.zkCerts, snap.last.request.params.proofs[2].leaf) = 0
    /\ snap.last.before.zkCerts[1].merkleProof.pathElements = "imported"
    /\ snap.last.result.kind = "throw"

C25_Witness ==
    /\ LastImportOfStored
    /\ snap.last.result.msg = "ZkCertAlreadyImported"
    /\ Len(snap.persisted.zkCerts) = 2

\* the request that finished last in the slot returned ZkCertImported
Imported(slot) ==
    /\ snap.finished[slot].request.method = "importZkCert"
    /\ snap.finished[slot].result = Returned("ZkCertImported", <<>>)

ImportedLeafHash(slot) == snap.finished[slot].request.params.zkCert.leafHash

\* C36: when two import requests for zkCerts with different leaf hashes are
\* processed concurrently and both report the import, both zkCerts are in
\* the persisted state, whatever the order of their reads, dialogs and saves.
C36_ConcurrentImportsBothStored ==
    SnapInstalled =>
        \A s1, s2 \in Slots :
            (/\ s1 # s2
             /\ Imported(s1) /\ Imported(s2)
             /\ ImportedLeafHash(s1) # ImportedLeafHash(s2)) =>
                /\ FindZkCert(snap.persisted.zkCerts, ImportedLeafHash(s1)) # 0
                /\ FindZkCert(snap.persisted.zkCerts, ImportedLeafHash(s2)) # 0

\* C37: for every distribution the tokens the gateway has transferred out for
\* it, by claims and by withdrawRemainingToken, never exceed the tokens
\* deposited into it.
C37_NeverPaysMoreThanDeposited ==
    GatewayDeployed =>
        \A id \in DistributionIds :
            gateway.paid[id] <= gateway.distributions[id].distributionAmount

====
